---- MODULE Spec2Model ----
(***************************************************************************)
(* Receipt verification core of pop-api: the field extractors of           *)
(* parsers.py and the receipt-to-history matcher of matcher.py.            *)
(*                                                                         *)
(* Python strings are TLA+ strings, read character by character with Len   *)
(* and SubSeq.  Python's None is the value None below, which is no string  *)
(* any pool contains.  Regular expressions are trees interpreted with      *)
(* the backtracking, leftmost, first-alternative-first semantics of        *)
(* Python's re module.                                                     *)
(***************************************************************************)
EXTENDS Integers, Sequences, FiniteSets, TLC

VARIABLES
    receipt,    \* matcher: the ReceiptData handed to match_receipt_to_history
    history,    \* matcher: the list of HistoryTransaction
    result,     \* matcher: the MatchResult returned, NoResult before the call
    lines,      \* parsers: the OCR lines handed to an extractor
    parsed,     \* parsers: what the extractor returned
    document,   \* history parser: the history document handed to parse_pdf_tables
    receipts,   \* verification: the receipts of the batch
    results,    \* verification: the list of MatchResult built so far
    response,   \* endpoints: what the endpoint answers, None before it has
    pc          \* "ready" before the call under study, "done" after it

\* the variables of the history parser and of the verification of a batch
batch_vars == <<document, receipts, results, response>>

vars == <<receipt, history, result, lines, parsed, batch_vars, pc>>

None == "<None>"

\* "not x" for an optional string
Falsy(x) == x = None \/ x = ""

\* no document and no batch: the state of these variables where they are not used
NoBatch ==
    /\ document = None
    /\ receipts = <<>>
    /\ results = <<>>
    /\ response = None

(***************************************************************************)
(* Strings                                                                 *)
(***************************************************************************)
Ch(s, i) == SubSeq(s, i, i)

Digits == {"0", "1", "2", "3", "4", "5", "6", "7", "8", "9"}
UpperAlphabet == "ABCDEFGHIJKLMNOPQRSTUVWXYZ"
LowerAlphabet == "abcdefghijklmnopqrstuvwxyz"
UpperLetters == {Ch(UpperAlphabet, i) : i \in 1..Len(UpperAlphabet)}
LowerLetters == {Ch(LowerAlphabet, i) : i \in 1..Len(LowerAlphabet)}
Letters == UpperLetters \cup LowerLetters
\* \s, \d and \w of the re module, over the characters the pools use
Space == {" ", "\t"}
WordChars == Letters \cup Digits \cup {"_"}

\* str.lower() of one character
LowerCh(c) ==
    IF c \in UpperLetters
    THEN Ch(LowerAlphabet, CHOOSE i \in 1..Len(UpperAlphabet) : Ch(UpperAlphabet, i) = c)
    ELSE c

\* str.lower(); the string is halved rather than peeled, here and below, to keep
\* the evaluation shallow
RECURSIVE Lower(_)
Lower(s) ==
    IF Len(s) <= 1 THEN LowerCh(s)
    ELSE Lower(SubSeq(s, 1, Len(s) \div 2)) \o Lower(SubSeq(s, Len(s) \div 2 + 1, Len(s)))

\* re.sub(<one character of drop>, "", s) and str.replace(c, "")
RECURSIVE RemoveChars(_, _)
RemoveChars(s, drop) ==
    IF Len(s) <= 1 THEN (IF s \in drop THEN "" ELSE s)
    ELSE RemoveChars(SubSeq(s, 1, Len(s) \div 2), drop)
         \o RemoveChars(SubSeq(s, Len(s) \div 2 + 1, Len(s)), drop)

\* str.strip() for the whitespace of the pools
RECURSIVE LStrip(_)
LStrip(s) == IF s # "" /\ Ch(s, 1) \in Space THEN LStrip(Tail(s)) ELSE s
RECURSIVE RStrip(_)
RStrip(s) ==
    IF s # "" /\ Ch(s, Len(s)) \in Space THEN RStrip(SubSeq(s, 1, Len(s) - 1)) ELSE s
Strip(s) == LStrip(RStrip(s))

\* " ".join(lines)
RECURSIVE Join(_)
Join(ls) ==
    IF ls = <<>> THEN ""
    ELSE IF Len(ls) = 1 THEN ls[1]
    ELSE ls[1] \o " " \o Join(Tail(ls))

\* sub in s
Contains(sub, s) ==
    \E i \in 0..(Len(s) - Len(sub)) : SubSeq(s, i + 1, i + Len(sub)) = sub

\* int(s) for a string of decimal digits
DigitVal(c) == CHOOSE d \in 0..9 : Ch("0123456789", d + 1) = c
RECURSIVE ToInt(_)
ToInt(s) ==
    IF s = "" THEN 0 ELSE 10 * ToInt(SubSeq(s, 1, Len(s) - 1)) + DigitVal(Ch(s, Len(s)))

RECURSIVE Pow10(_)
Pow10(n) == IF n <= 0 THEN 1 ELSE 10 * Pow10(n - 1)

Abs(x) == IF x < 0 THEN -x ELSE x

Min(S) == CHOOSE x \in S : \A y \in S : x <= y

(***************************************************************************)
(* Regular expressions (the subset the patterns of the source use).       *)
(* Ends(re, s, i, ic) is the sequence of positions at which a match of re  *)
(* starting after the first i characters of s can end, in the order in     *)
(* which a backtracking matcher tries them; ic is re.IGNORECASE.           *)
(*                                                                         *)
(* An expression built of literals, alternation, concatenation and "?"     *)
(* only is kept as the list of the strings it matches, in the order in     *)
(* which it tries them: (?:No\.?|Number)? is <<"No.", "No", "Number", "">>.*)
(***************************************************************************)
Words(ws) == <<"words", ws>>
IsWords(r) == r[1] = "words"
Lit(s) == Words(<<s>>)
Cls(S) == <<"cls", S>>
Bol == <<"bol">>
Eol == <<"eol">>
Wb == <<"wb">>

\* every u \o v, in the order of us and, for one u, of vs
Product(us, vs) ==
    [n \in 1..(Len(us) * Len(vs)) |->
        us[((n - 1) \div Len(vs)) + 1] \o vs[((n - 1) % Len(vs)) + 1]]

RECURSIVE Merge(_)
\* a concatenation with adjacent word lists made one
Merge(rs) ==
    IF Len(rs) < 2 THEN rs
    ELSE LET rest == Merge(Tail(rs))
         IN IF IsWords(rs[1]) /\ IsWords(rest[1])
            THEN <<Words(Product(rs[1][2], rest[1][2]))>> \o Tail(rest)
            ELSE <<rs[1]>> \o rest

\* a concatenation of one element is that element
Single(rs) == IF Len(rs) = 1 THEN rs[1] ELSE <<"cat", rs>>
Cat(rs) == Single(Merge(rs))

RECURSIVE AllWords(_)
AllWords(rs) == IF rs = <<>> THEN <<>> ELSE rs[1][2] \o AllWords(Tail(rs))

Alt(rs) ==
    IF \A k \in 1..Len(rs) : IsWords(rs[k]) THEN Words(AllWords(rs)) ELSE <<"alt", rs>>

\* greedy r{lo,hi}; hi = -1 for no upper limit
Rep(r, lo, hi) ==
    IF IsWords(r) /\ lo = 0 /\ hi = 1 THEN Words(r[2] \o <<"">>) ELSE <<"rep", r, lo, hi>>
Opt(r) == Rep(r, 0, 1)
Star(r) == Rep(r, 0, -1)
Plus(r) == Rep(r, 1, -1)

IsWordAt(s, i) == i >= 1 /\ i <= Len(s) /\ Ch(s, i) \in WordChars

\* q without the repetitions of an earlier element
Dedup(q) ==
    LET keep == {k \in 1..Len(q) : \A j \in 1..(k - 1) : q[j] # q[k]}
        kept == [n \in 1..Cardinality(keep) |->
                   q[CHOOSE k \in keep : Cardinality({m \in keep : m <= k}) = n]]
    IN SubSeq(kept, 1, Cardinality(keep))

\* does s continue with the word w after its first i characters
StartsWith(s, i, w, ic) ==
    /\ i + Len(w) <= Len(s)
    /\ IF ic THEN \A k \in 1..Len(w) : LowerCh(Ch(s, i + k)) = LowerCh(Ch(w, k))
       ELSE SubSeq(s, i + 1, i + Len(w)) = w

\* the ends of the words of ws that s continues with, in the order of ws
WordEnds(ws, s, i, ic) ==
    LET found == SelectSeq(ws, LAMBDA w : StartsWith(s, i, w, ic))
    IN Dedup([k \in 1..Len(found) |-> i + Len(found[k])])

\* does the character class re accept the character c
Accepts(re, c, ic) ==
    c \in re[2] \/ (ic /\ \E d \in re[2] : LowerCh(d) = LowerCh(c))

\* the length of the longest run of characters of the class re from position i on
Run(re, s, i, ic) ==
    CHOOSE n \in 0..(Len(s) - i) :
       /\ \A j \in 1..n : Accepts(re, Ch(s, i + j), ic)
       /\ n = Len(s) - i \/ ~Accepts(re, Ch(s, i + n + 1), ic)

\* the positions from a down to b
Down(a, b) == SubSeq([j \in 1..(a - b + 1) |-> a - j + 1], 1, a - b + 1)

RECURSIVE Ends(_, _, _, _)
RECURSIVE EndsSeq(_, _, _, _, _, _)
RECURSIVE EndsFromIn(_, _, _, _, _, _)
RECURSIVE EndsAlt(_, _, _, _, _, _)
RECURSIVE EndsRep(_, _, _, _, _, _)

\* the ends of re started at each of the positions starts[lo..hi], in order
EndsFromIn(re, s, starts, lo, hi, ic) ==
    CASE lo > hi -> <<>>
      [] lo = hi -> Ends(re, s, starts[lo], ic)
      [] lo < hi -> EndsFromIn(re, s, starts, lo, (lo + hi) \div 2, ic)
                    \o EndsFromIn(re, s, starts, (lo + hi) \div 2 + 1, hi, ic)

EndsFrom(re, s, starts, ic) ==
    IF Len(starts) = 1 THEN Ends(re, s, starts[1], ic)
    ELSE Dedup(EndsFromIn(re, s, starts, 1, Len(starts), ic))

\* concatenation: rs[lo..hi] continued from each of the positions of starts
EndsSeq(rs, lo, hi, s, starts, ic) ==
    CASE lo > hi \/ starts = <<>> -> starts
      [] lo = hi /\ starts # <<>> -> EndsFrom(rs[lo], s, starts, ic)
      [] lo < hi /\ starts # <<>> ->
           EndsSeq(rs, (lo + hi) \div 2 + 1, hi, s,
                   EndsSeq(rs, lo, (lo + hi) \div 2, s, starts, ic), ic)

\* alternation: the ends of rs[lo], then those of rs[lo + 1], and so on to rs[hi]
EndsAlt(rs, lo, hi, s, i, ic) ==
    CASE lo > hi -> <<>>
      [] lo = hi -> Ends(rs[lo], s, i, ic)
      [] lo < hi -> EndsAlt(rs, lo, (lo + hi) \div 2, s, i, ic)
                    \o EndsAlt(rs, (lo + hi) \div 2 + 1, hi, s, i, ic)

\* greedy repetition of an expression that is no character class: one more round
\* of r first, stopping here last
EndsRep(r, lo, hi, s, i, ic) ==
    LET once == SelectSeq(Ends(r, s, i, ic), LAMBDA e : e > i)
        more == IF hi = 0 \/ once = <<>> THEN <<>>
                ELSE EndsFrom(Rep(r, IF lo > 0 THEN lo - 1 ELSE 0,
                                     IF hi > 0 THEN hi - 1 ELSE hi), s, once, ic)
    IN Dedup(more \o (IF lo <= 0 THEN <<i>> ELSE <<>>))

Ends(re, s, i, ic) ==
    CASE re[1] = "words" -> WordEnds(re[2], s, i, ic)
      [] re[1] = "cls" ->
           IF i < Len(s) /\ Accepts(re, Ch(s, i + 1), ic) THEN <<i + 1>> ELSE <<>>
      [] re[1] = "cat" -> EndsSeq(re[2], 1, Len(re[2]), s, <<i>>, ic)
      [] re[1] = "alt" -> Dedup(EndsAlt(re[2], 1, Len(re[2]), s, i, ic))
      \* a repeated character class: the longest run first, then each shorter one
      [] re[1] = "rep" /\ re[2][1] = "cls" /\ re[4] >= 0
                       /\ re[4] < Run(re[2], s, i, ic) ->
           IF re[4] < re[3] THEN <<>> ELSE Down(i + re[4], i + re[3])
      [] re[1] = "rep" /\ re[2][1] = "cls"
                       /\ (re[4] < 0 \/ re[4] >= Run(re[2], s, i, ic)) ->
           IF Run(re[2], s, i, ic) < re[3] THEN <<>>
           ELSE Down(i + Run(re[2], s, i, ic), i + re[3])
      [] re[1] = "rep" /\ re[2][1] # "cls" -> EndsRep(re[2], re[3], re[4], s, i, ic)
      [] re[1] = "bol" -> IF i = 0 THEN <<i>> ELSE <<>>
      [] re[1] = "eol" -> IF i = Len(s) THEN <<i>> ELSE <<>>
      [] re[1] = "wb" -> IF IsWordAt(s, i) # IsWordAt(s, i + 1) THEN <<i>> ELSE <<>>

(***************************************************************************)
(* A pattern is a sequence of parts, so that the text each part matched    *)
(* (the groups) can be read off the boundaries between them.  A match is   *)
(* [ok, start, b]: b[k] is where part k ends in the first successful way   *)
(* of matching all the parts from position start on.                       *)
(***************************************************************************)
\* can parts[k..] be matched from position i on
Matches(parts, k, s, i, ic) == EndsSeq(parts, k, Len(parts), s, <<i>>, ic) # <<>>

\* the first of the ends of part k, in the order in which they are tried, from which
\* the parts after it can be matched
FirstOfEnds(parts, k, s, ends, ic) ==
    ends[Min({j \in 1..Len(ends) : Matches(parts, k + 1, s, ends[j], ic)})]

FirstEnd(parts, k, s, i, ic) == FirstOfEnds(parts, k, s, Ends(parts[k], s, i, ic), ic)

RECURSIVE Bounds(_, _, _, _, _)
\* part k ends at e; the parts after it start there
BoundsAfter(parts, k, s, e, ic) == <<e>> \o Bounds(parts, k + 1, s, e, ic)

Bounds(parts, k, s, i, ic) ==
    IF k > Len(parts) THEN <<>>
    ELSE BoundsAfter(parts, k, s, FirstEnd(parts, k, s, i, ic), ic)

\* the match at the leftmost of the positions starts, at each of which the pattern
\* matches
MatchFrom(parts, s, starts, ic) ==
    IF starts = {} THEN [ok |-> FALSE, start |-> 0, b |-> <<>>]
    ELSE [ok |-> TRUE, start |-> Min(starts), b |-> Bounds(parts, 1, s, Min(starts), ic)]

\* pattern.match(s): anchored at position i
MatchAt(parts, s, i, ic) ==
    MatchFrom(parts, s, {j \in {i} : Matches(parts, 1, s, j, ic)}, ic)

\* pattern.search(s): the leftmost position, from i on, at which the pattern matches
SearchFrom(parts, s, i, ic) ==
    MatchFrom(parts, s, {j \in i..Len(s) : Matches(parts, 1, s, j, ic)}, ic)

Search(parts, s, ic) == SearchFrom(parts, s, 0, ic)

\* the text part k of a successful match m covers
Group(m, s, k) == SubSeq(s, (IF k = 1 THEN m.start ELSE m.b[k - 1]) + 1, m.b[k])

(***************************************************************************)
(* datetime.strptime, as _parse_time uses it (CPython's _strptime.py):     *)
(* the format becomes a regular expression, one group per directive, which *)
(* must match from the start of the string and consume all of it.          *)
(***************************************************************************)
D09 == Cls(Digits)
D19 == Cls(Digits \ {"0"})
AMonths == <<"jan", "feb", "mar", "apr", "may", "jun",
             "jul", "aug", "sep", "oct", "nov", "dec">>
\* TimeRE sorts the names of a directive by length, longest first
FMonths == <<"september", "february", "november", "december", "january", "october",
             "august", "march", "april", "june", "july", "may">>
FMonthNumber == <<9, 2, 11, 12, 1, 10, 8, 3, 4, 6, 7, 5>>

\* TimeRE.__init__: the regular expression of each directive
Directive(c) ==
    CASE c = "d" -> Alt(<<Cat(<<Lit("3"), Cls({"0", "1"})>>), Cat(<<Cls({"1", "2"}), D09>>),
                          Cat(<<Lit("0"), D19>>), D19, Cat(<<Lit(" "), D19>>)>>)
      [] c = "H" -> Alt(<<Cat(<<Lit("2"), Cls({"0", "1", "2", "3"})>>),
                          Cat(<<Cls({"0", "1"}), D09>>), D09>>)
      [] c = "I" -> Alt(<<Cat(<<Lit("1"), Cls({"0", "1", "2"})>>), Cat(<<Lit("0"), D19>>), D19>>)
      [] c = "m" -> Alt(<<Cat(<<Lit("1"), Cls({"0", "1", "2"})>>), Cat(<<Lit("0"), D19>>), D19>>)
      [] c = "M" -> Alt(<<Cat(<<Cls({"0", "1", "2", "3", "4", "5"}), D09>>), D09>>)
      [] c = "S" -> Alt(<<Cat(<<Lit("6"), Cls({"0", "1"})>>),
                          Cat(<<Cls({"0", "1", "2", "3", "4", "5"}), D09>>), D09>>)
      [] c = "Y" -> Cat(<<D09, D09, D09, D09>>)
      [] c = "b" -> Alt([k \in 1..Len(AMonths) |-> Lit(AMonths[k])])
      [] c = "B" -> Alt([k \in 1..Len(FMonths) |-> Lit(FMonths[k])])
      [] c = "p" -> Alt(<<Lit("am"), Lit("pm")>>)

\* TimeRE.pattern: a run of whitespace is \s+, "%x" is the directive x, any other
\* character stands for itself.  Each part is [name, re]; name "" is no group.
RECURSIVE Pattern(_)
Pattern(fmt) ==
    IF fmt = "" THEN <<>>
    ELSE IF Ch(fmt, 1) = "%"
         THEN <<[name |-> Ch(fmt, 2), re |-> Directive(Ch(fmt, 2))]>>
              \o Pattern(SubSeq(fmt, 3, Len(fmt)))
    ELSE IF Ch(fmt, 1) \in Space
         THEN <<[name |-> "", re |-> Plus(Cls(Space))]>> \o Pattern(LStrip(fmt))
    ELSE <<[name |-> "", re |-> Lit(Ch(fmt, 1))]>> \o Pattern(Tail(fmt))

IsLeap(y) == (y % 4 = 0 /\ y % 100 # 0) \/ y % 400 = 0
DaysInMonth(y, m) ==
    IF m = 2 THEN (IF IsLeap(y) THEN 29 ELSE 28)
    ELSE IF m \in {4, 6, 9, 11} THEN 30 ELSE 31
RECURSIVE DaysBeforeMonth(_, _)
DaysBeforeMonth(y, m) == IF m <= 1 THEN 0 ELSE DaysBeforeMonth(y, m - 1) + DaysInMonth(y, m - 1)
\* date.toordinal(): days since 0001-01-01, that day being 1
Ordinal(y, m, d) ==
    LET p == y - 1
    IN p * 365 + (p \div 4) - (p \div 100) + (p \div 400) + DaysBeforeMonth(y, m) + d

\* A float or datetime that may be None: <<>> is None, <<v>> is the value v
NoValue == <<>>
Just(v) == <<v>>

\* the text the directive n matched, "" when the format has no directive n
Field(parts, m, s, n) ==
    IF \E k \in 1..Len(parts) : parts[k].name = n
    THEN Group(m, s, CHOOSE k \in 1..Len(parts) : parts[k].name = n)
    ELSE ""

Converted(parts, m, s) ==
    [n \in {"Y", "m", "b", "B", "d", "H", "I", "M", "S", "p"} |-> Field(parts, m, s, n)]

\* the month of %m, %b or %B
MonthOf(f) ==
    IF f["m"] # "" THEN ToInt(f["m"])
    ELSE IF f["b"] # "" THEN CHOOSE k \in 1..Len(AMonths) : AMonths[k] = Lower(f["b"])
    ELSE FMonthNumber[CHOOSE k \in 1..Len(FMonths) : FMonths[k] = Lower(f["B"])]

\* the hour of %I with %p
Hour12(h, ampm) ==
    IF ampm \in {"", "am"} THEN (IF h = 12 THEN 0 ELSE h)
    ELSE (IF h # 12 THEN h + 12 ELSE h)

\* the hour of %H or of %I, 0 with neither
HourOf(f) ==
    IF f["H"] # "" THEN ToInt(f["H"])
    ELSE IF f["I"] # "" THEN Hour12(ToInt(f["I"]), Lower(f["p"]))
    ELSE 0

\* datetime(...): the datetime as its day (date.toordinal()) and its second of that day
DateTime(year, month, day, hour, minute, second) ==
    IF year < 1 \/ day > DaysInMonth(year, month) \/ second > 59 THEN NoValue
    ELSE Just([day |-> Ordinal(year, month, day),
               sec |-> (hour * 60 + minute) * 60 + second])

\* minute and second are 0 when the format has no %M, %S
FromFields(f) ==
    DateTime(ToInt(f["Y"]), MonthOf(f), ToInt(f["d"]), HourOf(f), ToInt(f["M"]),
             ToInt(f["S"]))

\* ValueError (NoValue) when the format does not match or leaves text unconverted
FromMatch(parts, s, m) ==
    IF ~m.ok THEN NoValue
    ELSE IF m.b[Len(parts)] # Len(s) THEN NoValue
    ELSE FromFields(Converted(parts, m, s))

StrptimeBy(parts, s) ==
    FromMatch(parts, s, MatchAt([k \in 1..Len(parts) |-> parts[k].re], s, 0, TRUE))

\* datetime.strptime(s, fmt)
Strptime(s, fmt) == StrptimeBy(Pattern(fmt), s)

(***************************************************************************)
(* parsers.py: the extractors of provider, reference, amount and time      *)
(***************************************************************************)
\* re.search(pattern, s) is not None
Found(parts, s, ic) == \E j \in 0..Len(s) : Matches(parts, 1, s, j, ic)

\* "for line in lines: m = pattern.search(line); if m:" -- the first of the texts in
\* which the pattern is found, Len(texts) + 1 when it is found in none
FirstLine(parts, texts, ic) ==
    Min({k \in 1..Len(texts) : Found(parts, texts[k], ic)} \cup {Len(texts) + 1})

\* m.group(1) of pattern.search(s), the group being part g of the pattern
SearchGroup(parts, s, ic, g) == Group(Search(parts, s, ic), s, g)

\* An extraction strategy yields <<value>> when it returns from the function and <<>>
\* when control passes to the next one.
GroupAt(parts, texts, k, ic, g) ==
    IF k > Len(texts) THEN <<>> ELSE <<SearchGroup(parts, texts[k], ic, g)>>

\* "return m.group(1)" for the first of the texts in which the pattern is found
FirstGroup(parts, texts, ic, g) ==
    GroupAt(parts, texts, FirstLine(parts, texts, ic), ic, g)

\* the value of the first strategy that yields one, None when none does
FirstYield(yields) ==
    IF \E k \in 1..Len(yields) : yields[k] # <<>>
    THEN yields[Min({k \in 1..Len(yields) : yields[k] # <<>>})][1]
    ELSE None

\* a variant that looks for the GCash keywords before the BDO ones
detect_provider_GcashFirst(ls) ==
    LET combined == Lower(Join(ls))
    IN IF Contains("gcash", combined) \/ Contains("g cash", combined)
          \/ Contains("g-xchange", combined) THEN "gcash"
       ELSE IF Contains("bdo", combined) \/ Contains("bdopay", combined) THEN "bdo"
       ELSE IF Contains("paymaya", combined) \/ Contains("maya", combined) THEN "paymaya"
       ELSE IF Contains("transaction details", combined)
               /\ Contains("transfer from", combined) THEN "gcash"
       ELSE None

\* a variant that takes a receipt of no known provider for a GCash one
detect_provider_DefaultsToGcash(ls) ==
    LET combined == Lower(Join(ls))
    IN IF Contains("bdo", combined) \/ Contains("bdopay", combined) THEN "bdo"
       ELSE IF Contains("paymaya", combined) \/ Contains("maya", combined) THEN "paymaya"
       ELSE "gcash"

detect_provider(ls) ==
    LET combined == Lower(Join(ls))
    IN IF Contains("bdo", combined) \/ Contains("bdopay", combined) THEN "bdo"
       ELSE IF Contains("gcash", combined) \/ Contains("g cash", combined)
               \/ Contains("g-xchange", combined) THEN "gcash"
       ELSE IF Contains("paymaya", combined) \/ Contains("maya", combined) THEN "paymaya"
       ELSE IF Contains("transaction details", combined)
               /\ Contains("transfer from", combined) THEN "gcash"
       ELSE None

\* \s
Ws == Cls(Space)
\* (?:No\.?|Number)? and (?:No\.?|Number|ID)?
NoOrNumber == Opt(Alt(<<Cat(<<Lit("No"), Opt(Lit("."))>>), Lit("Number")>>))
NoNumberOrID == Opt(Alt(<<Cat(<<Lit("No"), Opt(Lit("."))>>), Lit("Number"), Lit("ID")>>))
\* [\s.:]*
Separators == Star(Cls(Space \cup {".", ":"}))

\* part 3 is group 1
_REF_NO_PATTERN ==
    <<Alt(<<Cat(<<Lit("Ref"), Opt(Lit(".")), Star(Ws), NoOrNumber>>),
            Cat(<<Lit("Reference"), Star(Ws), NoOrNumber>>),
            Cat(<<Lit("Transaction"), Star(Ws), NoNumberOrID>>)>>),
      Separators,
      Cat(<<D09, Rep(Cls(Digits \cup Space), 8, -1)>>)>>

\* part 3 is group 1
_ALPHANUMERIC_REF_PATTERN ==
    <<Alt(<<Cat(<<Lit("Ref"), Opt(Lit("erence")), Star(Ws), NoOrNumber>>),
            Cat(<<Lit("Transaction"), Star(Ws), NoNumberOrID>>)>>),
      Separators,
      Cat(<<Rep(Cls(UpperLetters), 2, -1), Lit("-"),
            Rep(Cls(WordChars \cup {"-"}), 8, -1)>>)>>

\* part 2 is group 1 in the three unlabeled patterns
_STANDALONE_REF_PATTERN == <<Wb, Rep(D09, 13, 13), Wb>>

_SPACED_REF_PATTERN ==
    <<Wb, Cat(<<Rep(D09, 4, 4), Opt(Ws), Rep(D09, 3, 3), Opt(Ws), Rep(D09, 3, 6)>>), Wb>>

_BDO_REF_PATTERN ==
    <<Wb, Cat(<<Rep(Cls(UpperLetters), 2, -1), Lit("-"), Rep(D09, 8, 8), Lit("-"),
                Rep(D09, 6, -1)>>), Wb>>

\* s[:n]
Prefix(s, n) == SubSeq(s, 1, IF Len(s) < n THEN Len(s) ELSE n)

_clean_ref(raw, max_digits) ==
    LET digits == RemoveChars(raw, {" "})
    IN Prefix(digits, max_digits)

\* what a strategy yields, stripped: m.group(1).strip()
Stripped(yield) == IF yield = <<>> THEN <<>> ELSE <<Strip(yield[1])>>
\* what a strategy yields, cleaned: _clean_ref(m.group(1))
Cleaned(yield) == IF yield = <<>> THEN <<>> ELSE <<_clean_ref(yield[1], 13)>>

\* 1. the labeled alphanumeric pattern, line by line and then in the joined text
AlphanumericRef(ls) ==
    Stripped(FirstGroup(_ALPHANUMERIC_REF_PATTERN, ls \o <<Join(ls)>>, TRUE, 3))

\* a variant of the labeled numeric strategy that looks at the single lines only
NumericRef_PerLineOnly(ls) == Cleaned(FirstGroup(_REF_NO_PATTERN, ls, TRUE, 3))

\* 2. the labeled numeric pattern, line by line and then in the joined text
NumericRef(ls) == Cleaned(FirstGroup(_REF_NO_PATTERN, ls \o <<Join(ls)>>, TRUE, 3))

BdoRef(ls) == FirstGroup(_BDO_REF_PATTERN, ls, TRUE, 2)

StandaloneRef(ls) == FirstGroup(_STANDALONE_REF_PATTERN, ls, FALSE, 2)

\* val = m.group(1).replace(" ", "") of each line, "" where the pattern is not found
SpacedValues(ls) ==
    [k \in 1..Len(ls) |->
        RemoveChars(FirstYield(<<FirstGroup(_SPACED_REF_PATTERN, <<ls[k]>>, FALSE, 2),
                                 <<"">>>>), {" "})]

\* "if len(val) >= 10: return val[:13]" on the first line where it holds
FirstLong(vals) ==
    IF \E k \in 1..Len(vals) : Len(vals[k]) >= 10
    THEN <<Prefix(vals[Min({k \in 1..Len(vals) : Len(vals[k]) >= 10})], 13)>>
    ELSE <<>>

SpacedRef(ls) == FirstLong(SpacedValues(ls))

\* a variant that tries the labeled numeric pattern before the labeled alphanumeric one
_extract_ref_no_NumericFirst(ls) ==
    FirstYield(<<NumericRef(ls), AlphanumericRef(ls), BdoRef(ls), StandaloneRef(ls),
                 SpacedRef(ls)>>)

_extract_ref_no(ls) ==
    FirstYield(<<AlphanumericRef(ls), NumericRef(ls), BdoRef(ls), StandaloneRef(ls),
                 SpacedRef(ls)>>)

(***************************************************************************)
(* Amount                                                                  *)
(***************************************************************************)
TwoDecimals == Cat(<<Plus(Cls(Digits \cup {","})), Lit("."), Rep(D09, 2, 2)>>)

\* part 2 is group 1 in the amount patterns but the headline's, where it is part 3
total_pattern ==
    <<Cat(<<Lit("Total"), Star(Ws), Lit("Amount"), Star(Ws), Lit("Sen"), Opt(Lit("t")),
            Star(Ws), Opt(Cls({"₱", "P"})), Star(Ws)>>),
      TwoDecimals>>

headline_pattern ==
    <<Bol, Cat(<<Star(Ws), Lit("PHP"), Plus(Ws)>>), TwoDecimals, Cat(<<Star(Ws), Eol>>)>>

sub_label_pattern ==
    <<Alt(<<Cat(<<Lit("send"), Star(Ws), Lit("money")>>),
            Cat(<<Lit("service"), Star(Ws), Lit("fee")>>)>>)>>

_AMOUNT_PATTERN ==
    <<Alt(<<Cls({"₱", "P"}), Lit("PHP")>>),
      Star(Ws),
      Cat(<<Plus(Cls(Digits \cup {","})), Opt(Lit(".")), Star(D09)>>)>>

_AMOUNT_LABEL_PATTERN ==
    <<Cat(<<Alt(<<Lit("Amount"),
                  Cat(<<Lit("Total"), Star(Ws), Lit("Amount"), Star(Ws), Lit("Sen"),
                        Opt(Lit("t"))>>)>>),
            Separators>>),
      TwoDecimals>>

_PLAIN_AMOUNT_PATTERN == <<Wb, TwoDecimals, Wb>>

RECURSIVE FindIter(_, _, _, _)
\* the match m and those after it, each sought from the end of the last
FindNext(parts, s, m, ic) ==
    IF ~m.ok THEN <<>>
    ELSE <<m>> \o FindIter(parts, s,
                           IF m.b[Len(parts)] > m.start THEN m.b[Len(parts)]
                           ELSE m.start + 1, ic)

\* pattern.finditer(s): the successive matches, from position i on
FindIter(parts, s, i, ic) == FindNext(parts, s, SearchFrom(parts, s, i, ic), ic)

\* float(val) > 0 for digits with a point
IsPositive(val) == \E i \in 1..Len(val) : Ch(val, i) \in Digits \ {"0"}

IsSubLabel(line) == Found(sub_label_pattern, line, TRUE)

\* what a strategy yields, without commas: m.group(1).replace(",", "")
NoCommas(yield) == IF yield = <<>> THEN <<>> ELSE <<RemoveChars(yield[1], {","})>>

\* 1. "Total Amount Sent" in the joined text
TotalAmount(ls) == NoCommas(FirstGroup(total_pattern, <<Join(ls)>>, TRUE, 2))

\* line.strip() of each line
StrippedLines(ls) == [k \in 1..Len(ls) |-> Strip(ls[k])]
\* the lines that are no sub-labels: "if re.search(...): continue"
NoSubLabels(ls) == SelectSeq(ls, LAMBDA line : ~IsSubLabel(line))

\* 2. the first stripped line, sub-labels skipped, that is a headline; the pattern
\* begins with ^ and the line has no line break, so that match is search
HeadlineAmount(ls) ==
    NoCommas(FirstGroup(headline_pattern, NoSubLabels(StrippedLines(ls)), TRUE, 3))

\* 3. the "Amount" label
LabelAmount(ls) == NoCommas(FirstGroup(_AMOUNT_LABEL_PATTERN, ls, TRUE, 2))

\* 4. and 5. the currency prefix, sub-labels skipped and not
CurrencyAmount(ls, skip_sub_labels) ==
    NoCommas(FirstGroup(_AMOUNT_PATTERN, IF skip_sub_labels THEN NoSubLabels(ls) ELSE ls,
                        TRUE, 3))

\* the values of the matches ms in the line
Values(ms, line) == [j \in 1..Len(ms) |-> RemoveChars(Group(ms[j], line, 2), {","})]

\* the values of all plain decimals of all lines that are > 0, in order
RECURSIVE PlainAmounts(_)
PlainAmounts(ls) ==
    IF ls = <<>> THEN <<>>
    ELSE SelectSeq(Values(FindIter(_PLAIN_AMOUNT_PATTERN, Head(ls), 0, FALSE), Head(ls)),
                   IsPositive)
         \o PlainAmounts(Tail(ls))

\* 6. "if amounts: return amounts[0]"
FirstAmount(amounts) == IF amounts = <<>> THEN <<>> ELSE <<amounts[1]>>

\* a variant that looks for the "Amount" label before the "Total Amount Sent" total
_extract_amount_LabelFirst(ls) ==
    FirstYield(<<LabelAmount(ls), TotalAmount(ls), HeadlineAmount(ls),
                 CurrencyAmount(ls, TRUE), CurrencyAmount(ls, FALSE),
                 FirstAmount(PlainAmounts(ls))>>)

\* a variant that looks for the "Amount" label before the headline
_extract_amount_LabelBeforeHeadline(ls) ==
    FirstYield(<<TotalAmount(ls), LabelAmount(ls), HeadlineAmount(ls),
                 CurrencyAmount(ls, TRUE), CurrencyAmount(ls, FALSE),
                 FirstAmount(PlainAmounts(ls))>>)

_extract_amount(ls) ==
    FirstYield(<<TotalAmount(ls), HeadlineAmount(ls), LabelAmount(ls),
                 CurrencyAmount(ls, TRUE), CurrencyAmount(ls, FALSE),
                 FirstAmount(PlainAmounts(ls))>>)

(***************************************************************************)
(* Date and time                                                           *)
(***************************************************************************)
\* re.sub(r"\s+", " ", text)
RECURSIVE CollapseIn(_, _, _)
CollapseIn(text, lo, hi) ==
    IF lo > hi THEN ""
    ELSE IF lo = hi
    THEN (IF Ch(text, lo) \notin Space THEN Ch(text, lo)
          ELSE IF lo > 1 /\ Ch(text, lo - 1) \in Space THEN "" ELSE " ")
    ELSE CollapseIn(text, lo, (lo + hi) \div 2)
         \o CollapseIn(text, (lo + hi) \div 2 + 1, hi)

CollapseSpaces(text) == CollapseIn(text, 1, Len(text))

\* (\d{4})(\d{1,2}:\d{2})
merged_time_pattern == <<Rep(D09, 4, 4), Cat(<<Rep(D09, 1, 2), Lit(":"), Rep(D09, 2, 2)>>)>>

RECURSIVE SplitMerged(_, _)
\* the text from position i on, with a space put into the match m and into those
\* after it
SplitAt(text, i, m) ==
    IF ~m.ok THEN SubSeq(text, i + 1, Len(text))
    ELSE SubSeq(text, i + 1, m.b[1]) \o " " \o SubSeq(text, m.b[1] + 1, m.b[2])
         \o SplitMerged(text, m.b[2])

\* re.sub(merged_time_pattern, r"\1 \2", text), from position i on
SplitMerged(text, i) == SplitAt(text, i, SearchFrom(merged_time_pattern, text, i, FALSE))

_normalize_spaces(text) == SplitMerged(Strip(CollapseSpaces(text)), 0)

MonthPrefixes ==
    Alt(<<Lit("Jan"), Lit("Feb"), Lit("Mar"), Lit("Apr"), Lit("May"), Lit("Jun"),
          Lit("Jul"), Lit("Aug"), Lit("Sep"), Lit("Oct"), Lit("Nov"), Lit("Dec")>>)
\* \d{1,2}:\d{2}\s*(?:AM|PM)? ; with IGNORECASE, (?:AM|PM|am|pm)? is the same
ClockTime ==
    Cat(<<Rep(D09, 1, 2), Lit(":"), Rep(D09, 2, 2), Star(Ws),
          Opt(Alt(<<Lit("AM"), Lit("PM")>>))>>)

\* the whole pattern is group 1
_DATETIME_PATTERN ==
    <<Cat(<<MonthPrefixes, Star(Cls(WordChars)), Plus(Ws), Rep(D09, 1, 2), Opt(Lit(",")),
            Plus(Ws), Rep(D09, 4, 4), Star(Ws), ClockTime>>)>>

_NUMERIC_DATE_PATTERN ==
    <<Alt(<<Cat(<<Rep(D09, 1, 2), Lit("/"), Rep(D09, 1, 2), Lit("/"), Rep(D09, 4, 4),
                  Plus(Ws), ClockTime>>),
            Cat(<<Rep(D09, 4, 4), Lit("-"), Rep(D09, 2, 2), Lit("-"), Rep(D09, 2, 2),
                  Plus(Ws), ClockTime>>)>>)>>

\* what a strategy yields, normalized: _normalize_spaces(m.group(1))
Normalized(yield) == IF yield = <<>> THEN <<>> ELSE <<_normalize_spaces(yield[1])>>

\* one date pattern: in the joined text, then line by line
DateBy(pattern, ls) == Normalized(FirstGroup(pattern, <<Join(ls)>> \o ls, TRUE, 1))

_extract_time(ls) ==
    FirstYield(<<DateBy(_DATETIME_PATTERN, ls), DateBy(_NUMERIC_DATE_PATTERN, ls)>>)

parse_receipt(ls) ==
    [provider |-> detect_provider(ls), transaction_id |-> _extract_ref_no(ls),
     amount |-> _extract_amount(ls), time |-> _extract_time(ls), raw_text |-> ls]

(***************************************************************************)
(* history_parser.py: a cell is a string or None, a row a list of cells,   *)
(* a column map a function from field names to 0-based column indices.     *)
(***************************************************************************)
\* "not val or not val.strip()"
IsBlank(val) == val = None \/ Strip(val) = ""

\* ^\d+\.?\d*$
number_pattern == <<Cat(<<Bol, Plus(D09), Opt(Lit(".")), Star(D09), Eol>>)>>

\* "if re.match(...) and float(cleaned) > 0: return cleaned", else None; a string of
\* the number pattern is above 0 when one of its digits is not 0
CleanedAmount(cleaned) ==
    IF Matches(number_pattern, 1, cleaned, 0, FALSE) /\ IsPositive(cleaned)
    THEN cleaned ELSE None

_clean_amount(val) ==
    IF IsBlank(val) THEN None
    ELSE CleanedAmount(RemoveChars(Strip(val), {"₱", "P", ",", "-"} \cup Space))

\* ^[\dA-Z][\dA-Z\-]{5,}$
ref_shape ==
    <<Cat(<<Bol, Cls(Digits \cup UpperLetters),
            Rep(Cls(Digits \cup UpperLetters \cup {"-"}), 5, -1), Eol>>)>>

CleanedRef(cleaned) == IF Matches(ref_shape, 1, cleaned, 0, TRUE) THEN cleaned ELSE None

\* _clean_ref of history_parser.py (parsers.py has a _clean_ref of its own)
history_clean_ref(val) ==
    IF IsBlank(val) THEN None ELSE CleanedRef(RemoveChars(Strip(val), {" "}))

_normalize_date(val) == IF IsBlank(val) THEN None ELSE CollapseSpaces(Strip(val))

\* any(k in cell_lower for k in keywords)
AnyIn(keywords, cell_lower) == \E k \in keywords : Contains(k, cell_lower)

\* the field a header cell stands for, None when it stands for none
ColumnOf(cell_lower) ==
    IF AnyIn({"date", "time", "timestamp"}, cell_lower) THEN "date_time"
    ELSE IF AnyIn({"description", "details", "transaction", "particulars"}, cell_lower)
    THEN "description"
    ELSE IF AnyIn({"ref", "reference"}, cell_lower) THEN "ref_number"
    ELSE IF AnyIn({"debit", "out"}, cell_lower) THEN "debit"
    ELSE IF AnyIn({"credit", "in"}, cell_lower) THEN "credit"
    ELSE IF AnyIn({"balance"}, cell_lower) THEN "balance"
    ELSE IF AnyIn({"amount"}, cell_lower) THEN "amount"
    ELSE IF AnyIn({"fee"}, cell_lower) THEN "fee"
    ELSE IF AnyIn({"status"}, cell_lower) THEN "status"
    ELSE None

\* col_map[field] = i
Put(col_map, field, i) ==
    [f \in DOMAIN col_map \cup {field} |-> IF f = field THEN i ELSE col_map[f]]

\* the column map with the field of one header cell put in
WithCell(col_map, cell, i) ==
    IF Falsy(cell) \/ ColumnOf(Lower(Strip(cell))) = None THEN col_map
    ELSE Put(col_map, ColumnOf(Lower(Strip(cell))), i)

RECURSIVE DetectFrom(_, _, _)
\* "for i, cell in enumerate(header_row)", from index i on
DetectFrom(header_row, i, col_map) ==
    IF i >= Len(header_row) THEN col_map
    ELSE DetectFrom(header_row, i + 1, WithCell(col_map, header_row[i + 1], i))

_detect_columns(header_row) == DetectFrom(header_row, 0, <<>>)

\* get(field) of _row_to_transaction
get(row, col_map, field) ==
    IF field \in DOMAIN col_map /\ col_map[field] < Len(row)
    THEN row[col_map[field] + 1] ELSE None

\* a variant of the choice below that prefers the credit cell to the debit cell
AmountAndDirection_CreditFirst(debit_val, credit_val, amount_val) ==
    IF ~Falsy(credit_val) THEN <<credit_val, "credit">>
    ELSE IF ~Falsy(debit_val) THEN <<debit_val, "debit">>
    ELSE IF ~Falsy(amount_val) THEN <<amount_val, "unknown">>
    ELSE <<None, None>>

\* amount and direction from the cleaned debit, credit and amount cells
AmountAndDirection(debit_val, credit_val, amount_val) ==
    IF ~Falsy(debit_val) THEN <<debit_val, "debit">>
    ELSE IF ~Falsy(credit_val) THEN <<credit_val, "credit">>
    ELSE IF ~Falsy(amount_val) THEN <<amount_val, "unknown">>
    ELSE <<None, None>>

\* str(c)
StrCell(c) == IF c = None THEN "None" ELSE c

\* description.strip() if description else None
StrippedOrNone(val) == IF Falsy(val) THEN None ELSE Strip(val)

\* HistoryTransaction(...) of _row_to_transaction
RowTransaction(row, col_map, amount_direction) ==
    [date_time |-> _normalize_date(get(row, col_map, "date_time")),
     description |-> StrippedOrNone(get(row, col_map, "description")),
     ref_number |-> history_clean_ref(get(row, col_map, "ref_number")),
     amount |-> amount_direction[1],
     direction |-> amount_direction[2],
     balance |-> _clean_amount(get(row, col_map, "balance")),
     raw_row |-> [k \in 1..Len(row) |-> StrCell(row[k])]]

_row_to_transaction(row, col_map) ==
    RowTransaction(row, col_map,
                   AmountAndDirection(_clean_amount(get(row, col_map, "debit")),
                                      _clean_amount(get(row, col_map, "credit")),
                                      _clean_amount(get(row, col_map, "amount"))))

\* "not row or all(not cell or not cell.strip() for cell in row)"
IsEmptyRow(row) == \A k \in 1..Len(row) : IsBlank(row[k])

\* " ".join(str(c) for c in row if c).lower()
RowText(row) == Lower(Join(SelectSeq(row, LAMBDA c : ~Falsy(c))))

\* rows that look like the header repeated
IsHeaderRow(row) == Contains("date", RowText(row)) /\ Contains("description", RowText(row))

\* "if txn and (txn.amount or txn.ref_number)"
HasAmountOrRef(txn) == ~Falsy(txn.amount) \/ ~Falsy(txn.ref_number)

\* the transactions of the rows that are neither skipped nor dropped
Transactions(rows, col_map) ==
    SelectSeq([k \in 1..Len(rows) |-> _row_to_transaction(rows[k], col_map)],
              HasAmountOrRef)

\* a variant that keeps the rows with neither amount nor reference
RowsToTransactions_KeepsAll(data_rows, col_map) ==
    LET rows == SelectSeq(data_rows, LAMBDA row : ~IsEmptyRow(row) /\ ~IsHeaderRow(row))
    IN [k \in 1..Len(rows) |-> _row_to_transaction(rows[k], col_map)]

\* "for row in data_rows: ..."
RowsToTransactions(data_rows, col_map) ==
    Transactions(SelectSeq(data_rows,
                           LAMBDA row : ~IsEmptyRow(row) /\ ~IsHeaderRow(row)),
                 col_map)

\* the positional guess: [Date, Description, Ref, Debit, Credit, Balance]
PositionalGuess(num_cols, col_map) ==
    IF num_cols >= 6
    THEN [date_time |-> 0, description |-> 1, ref_number |-> 2, debit |-> 3,
          credit |-> 4, balance |-> 5]
    ELSE IF num_cols = 5
    THEN [date_time |-> 0, description |-> 1, ref_number |-> 2, debit |-> 3,
          credit |-> 4]
    ELSE col_map

\* "if len(col_map) < 2: ..." and the loop over the data rows
WithHeader(header, data_rows, col_map) ==
    RowsToTransactions(data_rows,
                       IF Cardinality(DOMAIN col_map) < 2
                       THEN PositionalGuess(Len(header), col_map) ELSE col_map)

\* a variant that never tries the second row as the header
WithFirstHeader_FirstRowOnly(table, col_map) == WithHeader(table[1], Tail(table), col_map)

\* the second row is tried as the header where the first gives fewer than two columns
WithFirstHeader(table, col_map) ==
    IF Cardinality(DOMAIN col_map) < 2 /\ Len(table) > 2
    THEN WithHeader(table[2], SubSeq(table, 3, Len(table)), _detect_columns(table[2]))
    ELSE WithHeader(table[1], Tail(table), col_map)

_parse_table_rows(table) ==
    IF Len(table) < 2 THEN <<>> ELSE WithFirstHeader(table, _detect_columns(table[1]))

\* the whole pattern is group 1
_DATE_PATTERN ==
    <<Cat(<<MonthPrefixes, Star(Cls(WordChars)), Plus(Ws), Rep(D09, 1, 2), Opt(Lit(",")),
            Plus(Ws), Rep(D09, 4, 4), Opt(Cat(<<Plus(Ws), ClockTime>>))>>)>>

\* part 3 is group 1
_REF_IN_TEXT ==
    <<Alt(<<Cat(<<Lit("Ref"), Opt(Lit(".")), Star(Ws),
                  Opt(Alt(<<Cat(<<Lit("No"), Opt(Lit("."))>>), Lit("#"),
                            Lit("Number")>>))>>),
            Cat(<<Lit("Reference"), Star(Ws),
                  Opt(Alt(<<Cat(<<Lit("No"), Opt(Lit("."))>>), Lit("#")>>))>>)>>),
      Cat(<<Star(Ws), Opt(Lit(":")), Star(Ws)>>),
      Cat(<<Cls(UpperLetters \cup Digits), Rep(Cls(WordChars \cup {"-"}), 5, -1)>>)>>

\* part 3 is group 1
_AMOUNT_IN_TEXT == <<Alt(<<Cls({"₱", "P"}), Lit("PHP")>>), Star(Ws), TwoDecimals>>

\* HistoryTransaction(...) of _parse_raw_text
TextTransaction(date, ref, amount, description) ==
    [date_time |-> date, description |-> description, ref_number |-> ref,
     amount |-> amount, direction |-> "unknown", balance |-> None, raw_row |-> None]

\* "if current_ref or current_amount"
Pending(st) == ~Falsy(st.current_ref) \/ ~Falsy(st.current_amount)

\* the pending transaction saved with the line as its description
Saved(st, line) ==
    [st EXCEPT !.transactions =
                   Append(@, TextTransaction(st.current_date, st.current_ref,
                                             st.current_amount, line)),
               !.current_ref = None, !.current_amount = None]

\* a variant that takes the date of the line before it saves the pending transaction
AfterDate_NewDateFirst(st, line, found) ==
    IF found = <<>> THEN st
    ELSE IF Pending(st) THEN Saved([st EXCEPT !.current_date = Strip(found[1])], line)
    ELSE [st EXCEPT !.current_date = Strip(found[1])]

\* "if date_match: ..." where found is what _DATE_PATTERN.search(line) yields
AfterDate(st, line, found) ==
    IF found = <<>> THEN st
    ELSE [(IF Pending(st) THEN Saved(st, line) ELSE st)
             EXCEPT !.current_date = Strip(found[1])]

\* "if ref_match: ..."
AfterRef(st, found) ==
    IF found = <<>> THEN st ELSE [st EXCEPT !.current_ref = RemoveChars(found[1], {" "})]

\* "if amt_match: ..."
AfterAmount(st, found) ==
    IF found = <<>> THEN st
    ELSE [st EXCEPT !.current_amount = RemoveChars(found[1], {","})]

\* the body of "for line in lines", line being stripped
ScanLine(st, line) ==
    IF line = "" THEN st
    ELSE AfterAmount(AfterRef(AfterDate(st, line,
                                        FirstGroup(_DATE_PATTERN, <<line>>, TRUE, 1)),
                              FirstGroup(_REF_IN_TEXT, <<line>>, TRUE, 3)),
                     FirstGroup(_AMOUNT_IN_TEXT, <<line>>, TRUE, 3))

RECURSIVE Scan(_, _, _)
Scan(st, text, k) ==
    IF k > Len(text) THEN st ELSE Scan(ScanLine(st, Strip(text[k])), text, k + 1)

\* "Save last pending transaction"
Flushed(st) ==
    IF Pending(st)
    THEN Append(st.transactions,
                TextTransaction(st.current_date, st.current_ref, st.current_amount, None))
    ELSE st.transactions

\* the text is the list of its lines, text.split("\n")
_parse_raw_text(text) ==
    Flushed(Scan([current_date |-> None, current_ref |-> None, current_amount |-> None,
                  transactions |-> <<>>], text, 1))

RECURSIVE Extend(_, _)
\* transactions.extend(...) for each of the lists
Extend(lists, k) == IF k = 0 THEN <<>> ELSE Extend(lists, k - 1) \o lists[k]

\* what one page adds: its tables where it has tables, its text otherwise
PageTransactions(page) ==
    IF page.tables # <<>>
    THEN Extend([k \in 1..Len(page.tables) |-> _parse_table_rows(page.tables[k])],
                Len(page.tables))
    ELSE IF page.text # None THEN _parse_raw_text(page.text)
    ELSE <<>>

\* a document is its pages; pdfplumber.open raises on what is no PDF
parse_pdf_tables(pdf) ==
    Extend([k \in 1..Len(pdf.pages) |-> PageTransactions(pdf.pages[k])], Len(pdf.pages))

(***************************************************************************)
(* The strings the matcher is run on.  Receipts carry what /verify-parsed  *)
(* accepts (any strings); history entries carry what history_parser.py     *)
(* produces.                                                               *)
(***************************************************************************)
ReceiptRefs == {None, "-", "BN-123"}
ReceiptAmounts == {None, "x", "0.00", "1,000.06"}
ReceiptTimes == {None, "01/28/2026 19:58", "Jan 28, 2026 7:58 PM"}

HistoryRefs == {None, "bn12-3", "703751"}
HistoryAmounts == {None, "0.00", "1000.05", "1000.055", "1000.06", "1000.07", "320.00"}
HistoryTimes ==
    {None, "Jan 28, 2026 7:48 PM", "Jan 28, 2026 20:08", "Jan 28, 2026 8:09 PM"}

(***************************************************************************)
(* matcher.py                                                              *)
(***************************************************************************)
\* Each normalisation is computed once per pool string and looked up afterwards.
Lookup(table, x) == (CHOOSE p \in table : p[1] = x)[2]

NormalizeRef(ref) ==
    IF Falsy(ref) THEN None ELSE Lower(RemoveChars(ref, Space \cup {"-"}))
NormalizedRefs == {<<s, NormalizeRef(s)>> : s \in ReceiptRefs \cup HistoryRefs}
_normalize_ref(ref) ==
    IF ref \in ReceiptRefs \cup HistoryRefs THEN Lookup(NormalizedRefs, ref)
    ELSE NormalizeRef(ref)

\* float(s) for the strings the pools hold: optional sign, digits with at most one
\* point; anything else is ValueError (NoValue).  The value is kept exactly, in
\* thousandths; the pools hold no amount with more than three fraction digits.
FloatPattern ==
    <<Star(Cls(Space)), Opt(Cls({"+", "-"})),
      Alt(<<Cat(<<Plus(D09), Opt(Lit(".")), Star(D09)>>), Cat(<<Lit("."), Plus(D09)>>)>>),
      Star(Cls(Space)), Eol>>

\* the value, in thousandths, of the digits before and after the point
Milli(whole, frac) == ToInt(whole) * 1000 + ToInt(frac) * Pow10(3 - Len(frac))

\* the value of digits with a point at position dot, or with none (dot = Len(num) + 1)
SplitAtPoint(num, dot) == Milli(SubSeq(num, 1, dot - 1), SubSeq(num, dot + 1, Len(num)))

Unsigned(num) ==
    SplitAtPoint(num, Min({k \in 1..(Len(num) + 1) : k = Len(num) + 1 \/ Ch(num, k) = "."}))

FloatOf(s, m) ==
    IF ~m.ok THEN NoValue
    ELSE Just(IF Group(m, s, 2) = "-" THEN -Unsigned(Group(m, s, 3))
              ELSE Unsigned(Group(m, s, 3)))

Float(s) == FloatOf(s, MatchAt(FloatPattern, s, 0, FALSE))

NormalizeAmount(amount) ==
    IF Falsy(amount) THEN NoValue ELSE Float(RemoveChars(amount, {","}))
NormalizedAmounts == {<<s, NormalizeAmount(s)>> : s \in ReceiptAmounts \cup HistoryAmounts}
_normalize_amount(amount) ==
    IF amount \in ReceiptAmounts \cup HistoryAmounts THEN Lookup(NormalizedAmounts, amount)
    ELSE NormalizeAmount(amount)

formats ==
    <<"%b %d, %Y %I:%M %p", "%b %d, %Y %H:%M", "%B %d, %Y %I:%M %p",
      "%b %d %Y %I:%M %p", "%m/%d/%Y %I:%M %p", "%Y-%m-%d %H:%M",
      "%b %d, %Y %I:%M:%S %p", "%b %d, %Y">>

\* "try: return ...; except ValueError: continue"
OrElse(t, next) == IF t # NoValue THEN t ELSE next

RECURSIVE TryFormats(_, _)
TryFormats(s, fmts) ==
    IF fmts = <<>> THEN NoValue
    ELSE OrElse(Strptime(s, Head(fmts)), TryFormats(s, Tail(fmts)))

ParseTime(time_str) ==
    IF Falsy(time_str) THEN NoValue ELSE TryFormats(Strip(time_str), formats)
ParsedTimes == {<<s, ParseTime(s)>> : s \in ReceiptTimes \cup HistoryTimes}
_parse_time(time_str) ==
    IF time_str \in ReceiptTimes \cup HistoryTimes THEN Lookup(ParsedTimes, time_str)
    ELSE ParseTime(time_str)

Truthy(x) == x # NoValue /\ x[1] # 0

\* The pairs of pool amounts (in thousandths) that lie exactly 0.01 apart and whose
\* difference, computed in IEEE double precision as Python does, is below 0.01:
\* 1000.06 - 1000.05 is 0.009999999999990905, 1000.07 - 1000.06 is 0.010000000000104592.
RoundsBelowCent == {{1000050, 1000060}}

\* abs(x - y) < 0.01 for floats x and y
AbsDiffBelowCent(x, y) ==
    LET d == Abs(x - y)
    IN IF d = 10 THEN {x, y} \in RoundsBelowCent ELSE d < 10

\* abs(a - b) <= timedelta(minutes=tol) for datetimes a and b
AbsDiffWithin(a, b, tol) ==
    LET dd == a.day - b.day
    IN IF Abs(dd) > (tol \div 1440) + 1 THEN FALSE
       ELSE Abs(dd * 86400 + a.sec - b.sec) <= tol * 60

\* str(x) inside an f-string
Str(x) == IF x = None THEN "None" ELSE x

MatchResult(verdict, rcpt, h_ref, h_amount, h_time, details) ==
    [receipt_filename |-> None, verdict |-> verdict,
     receipt_ref |-> rcpt.transaction_id, receipt_amount |-> rcpt.amount,
     receipt_time |-> rcpt.time,
     history_ref |-> h_ref, history_amount |-> h_amount, history_time |-> h_time,
     details |-> details]

\* strategy 1: "if h_ref and h_ref == r_ref"
RefMatches(r_ref, txn) ==
    LET h_ref == _normalize_ref(txn.ref_number)
    IN ~Falsy(h_ref) /\ h_ref = r_ref

\* strategies 1 to 3: "if h_amount and abs(r_amount - h_amount) < 0.01"
AmountMatches(r_amount, txn) ==
    LET h_amount == _normalize_amount(txn.amount)
    IN Truthy(h_amount) /\ AbsDiffBelowCent(r_amount[1], h_amount[1])

\* a variant of the test below that lets an entry without a parsed time pass
TimeMatches_UnparsedPasses(r_time, txn, tol) ==
    LET h_time == _parse_time(txn.date_time)
    IN h_time = NoValue \/ AbsDiffWithin(r_time[1], h_time[1], tol)

\* strategy 2: "if h_time and abs(r_time - h_time) <= tolerance"
TimeMatches(r_time, txn, tol) ==
    LET h_time == _parse_time(txn.date_time)
    IN h_time # NoValue /\ AbsDiffWithin(r_time[1], h_time[1], tol)

\* Variants of the strategies, each differing from the code in one decision; the
\* properties below are checked to tell the code from them.

\* strategy 1 letting the later strategies decide when the amounts conflict
Strategy1_FallsThroughOnConflict(rcpt, hist, r_ref, r_amount) ==
    LET ref_hits == {i \in 1..Len(hist) : RefMatches(r_ref, hist[i])}
        txn == hist[Min(ref_hits)]
    IN IF Falsy(r_ref) \/ ref_hits = {} THEN <<>>
       ELSE IF Truthy(r_amount) /\ AmountMatches(r_amount, txn)
       THEN <<MatchResult("matched", rcpt, txn.ref_number, txn.amount, txn.date_time,
                          "Reference number and amount match.")>>
       ELSE <<>>

\* strategy 2 looking at the first history entry only
Strategy2_FirstEntryOnly(rcpt, hist, tol, r_amount, r_time) ==
    LET txn == hist[1]
    IN IF ~Truthy(r_amount) \/ r_time = NoValue \/ hist = <<>> THEN <<>>
       ELSE IF AmountMatches(r_amount, txn) /\ TimeMatches(r_time, txn, tol)
       THEN <<MatchResult("matched", rcpt, txn.ref_number, txn.amount, txn.date_time,
                          "Amount and time match (within " \o ToString(tol) \o " min).")>>
       ELSE <<>>

\* strategy 1 reporting a conflict without the entry it conflicts with
Strategy1_ConflictWithoutSnapshot(rcpt, hist, r_ref, r_amount) ==
    LET ref_hits == {i \in 1..Len(hist) : RefMatches(r_ref, hist[i])}
        txn == hist[Min(ref_hits)]
    IN IF Falsy(r_ref) \/ ref_hits = {} THEN <<>>
       ELSE IF Truthy(r_amount) /\ AmountMatches(r_amount, txn)
       THEN <<MatchResult("matched", rcpt, txn.ref_number, txn.amount, txn.date_time,
                          "Reference number and amount match.")>>
       ELSE <<MatchResult("mismatch", rcpt, None, None, None,
                          "Reference number matches but amount differs: receipt="
                          \o Str(rcpt.amount) \o ", history=" \o Str(txn.amount))>>

\* A strategy yields <<result>> when it returns from the function and <<>> when
\* control falls through to the next one.  r_ref, r_amount and r_time are the
\* receipt's normalized reference, amount and time.

\* a variant of the decision below in which the shared reference alone is a match
RefDecides_ReferenceAlone(rcpt, txn, r_amount) ==
    <<MatchResult("matched", rcpt, txn.ref_number, txn.amount, txn.date_time,
                  "Reference number and amount match.")>>

\* the entry with the receipt's reference: "if r_amount and h_amount and
\* abs(r_amount - h_amount) < 0.01" decides between "matched" and "mismatch"
RefDecides(rcpt, txn, r_amount) ==
    IF Truthy(r_amount) /\ AmountMatches(r_amount, txn)
    THEN <<MatchResult("matched", rcpt, txn.ref_number, txn.amount, txn.date_time,
                       "Reference number and amount match.")>>
    ELSE <<MatchResult("mismatch", rcpt, txn.ref_number, txn.amount, txn.date_time,
                       "Reference number matches but amount differs: receipt="
                       \o Str(rcpt.amount) \o ", history=" \o Str(txn.amount))>>

\* the entries ref_hits have the receipt's reference: the first of them decides
FirstRefDecides(rcpt, hist, ref_hits, r_amount) ==
    IF ref_hits = {} THEN <<>> ELSE RefDecides(rcpt, hist[Min(ref_hits)], r_amount)

\* Strategy 1: the first entry whose reference equals the receipt's decides
Strategy1(rcpt, hist, r_ref, r_amount) ==
    IF Falsy(r_ref) THEN <<>>
    ELSE FirstRefDecides(rcpt, hist, {i \in 1..Len(hist) : RefMatches(r_ref, hist[i])},
                         r_amount)

TimeMatched(rcpt, txn, tol) ==
    <<MatchResult("matched", rcpt, txn.ref_number, txn.amount, txn.date_time,
                  "Amount and time match (within " \o ToString(tol) \o " min).")>>

\* the entries time_hits have the receipt's amount and a time within tolerance
FirstTimeMatched(rcpt, hist, tol, time_hits) ==
    IF time_hits = {} THEN <<>> ELSE TimeMatched(rcpt, hist[Min(time_hits)], tol)

\* Strategy 2: the first entry with the receipt's amount and a time within tolerance
Strategy2(rcpt, hist, tol, r_amount, r_time) ==
    IF ~Truthy(r_amount) \/ r_time = NoValue THEN <<>>
    ELSE FirstTimeMatched(rcpt, hist, tol,
                          {i \in 1..Len(hist) : /\ AmountMatches(r_amount, hist[i])
                                                /\ TimeMatches(r_time, hist[i], tol)})

AmountMatched(rcpt, txn) ==
    <<MatchResult("matched", rcpt, txn.ref_number, txn.amount, txn.date_time,
                  "Amount matches (unique match). Time/ref could not be verified.")>>

\* the entries amount_matches have the receipt's amount: one is a match, more are not
UniqueAmountMatched(rcpt, hist, amount_matches) ==
    IF Cardinality(amount_matches) = 1 THEN AmountMatched(rcpt, hist[Min(amount_matches)])
    ELSE IF Cardinality(amount_matches) > 1
    THEN <<MatchResult("mismatch", rcpt, None, None, None,
                       "Amount " \o Str(rcpt.amount) \o " found "
                       \o ToString(Cardinality(amount_matches)) \o " times in history. "
                       \o "Cannot determine unique match without ref number.")>>
    ELSE <<>>

\* Strategy 3: all entries with the receipt's amount
Strategy3(rcpt, hist, r_amount) ==
    IF ~Truthy(r_amount) THEN <<>>
    ELSE UniqueAmountMatched(rcpt, hist,
                             {i \in 1..Len(hist) : AmountMatches(r_amount, hist[i])})

NotFound(rcpt) ==
    <<MatchResult("not_found", rcpt, None, None, None,
                  "No matching transaction found in history.")>>

\* the strategies in turn, on the receipt's normalized reference, amount and time
Decide(rcpt, hist, tol, r_ref, r_amount, r_time) ==
    FirstYield(<<Strategy1(rcpt, hist, r_ref, r_amount),
                 Strategy2(rcpt, hist, tol, r_amount, r_time),
                 Strategy3(rcpt, hist, r_amount),
                 NotFound(rcpt)>>)

match_receipt_to_history(rcpt, hist, tol) ==
    Decide(rcpt, hist, tol, _normalize_ref(rcpt.transaction_id),
           _normalize_amount(rcpt.amount), _parse_time(rcpt.time))

\* "result.receipt_filename = filename"
WithFilename(res, filename) == [res EXCEPT !.receipt_filename = filename]

\* the history without its first entry that a matched result points at
WithoutMatched(hist, res) ==
    LET at == {k \in 1..Len(hist) :
                  <<hist[k].ref_number, hist[k].amount, hist[k].date_time>>
                     = <<res.history_ref, res.history_amount, res.history_time>>}
    IN IF res.verdict = "matched" /\ at # {}
       THEN SubSeq(hist, 1, Min(at) - 1) \o SubSeq(hist, Min(at) + 1, Len(hist))
       ELSE hist

RECURSIVE verify_receipts_ConsumesMatched(_, _, _)
\* a variant in which a matched history entry is taken out of the history that the
\* later receipts of the batch are matched against
verify_receipts_ConsumesMatched(rs, hist, tol) ==
    IF rs = <<>> THEN <<>>
    ELSE <<WithFilename(match_receipt_to_history(rs[1][2], hist, tol), rs[1][1])>>
         \o verify_receipts_ConsumesMatched(
                Tail(rs), WithoutMatched(hist, match_receipt_to_history(rs[1][2], hist, tol)),
                tol)

\* rs is the list of the pairs <<filename, receipt>>; the loop appends one result for
\* each pair, in order
verify_receipts(rs, hist, tol) ==
    [k \in 1..Len(rs) |->
        WithFilename(match_receipt_to_history(rs[k][2], hist, tol), rs[k][1])]

(***************************************************************************)
(* The matcher as a state machine: a receipt and a history are given, and  *)
(* one call of match_receipt_to_history produces the result.               *)
(***************************************************************************)
MaxHistory == 2

time_tolerance_minutes == 10

ReceiptData == [transaction_id : ReceiptRefs, amount : ReceiptAmounts, time : ReceiptTimes]

\* A row lacking both amount and reference is never emitted by the history parser.
\* The pool keeps a date only on entries whose amount the matcher can find equal to
\* a receipt's, and on one entry of amount zero (elsewhere the date is copied at
\* most, never compared), and gives the
\* unrelated reference to a reference-only row and to one row with an amount.
HistoryTransaction ==
    {txn \in [ref_number : HistoryRefs, amount : HistoryAmounts, date_time : HistoryTimes] :
        /\ txn.amount # None \/ txn.ref_number # None
        /\ txn.date_time # None =>
              \/ txn.amount \in {"1000.05", "1000.06"}
              \/ /\ txn.amount = "0.00" /\ txn.ref_number = None
                 /\ txn.date_time = "Jan 28, 2026 7:48 PM"
        /\ txn.ref_number = "703751" =>
              txn.amount \in {None, "1000.06"} /\ txn.date_time = None}

RECURSIVE ListsUpTo(_, _)
ListsUpTo(S, n) ==
    IF n = 0 THEN {<<>>}
    ELSE LET shorter == ListsUpTo(S, n - 1)
         IN shorter \cup {Append(l, x) : l \in {q \in shorter : Len(q) = n - 1}, x \in S}

NoResult == MatchResult("", [transaction_id |-> None, amount |-> None, time |-> None],
                        None, None, None, "")

InitMatcher ==
    /\ receipt \in ReceiptData
    /\ history \in ListsUpTo(HistoryTransaction, MaxHistory)
    /\ result = NoResult
    /\ lines = <<>>
    /\ parsed = None
    /\ NoBatch
    /\ pc = "ready"

Match ==
    /\ pc = "ready"
    /\ result' = match_receipt_to_history(receipt, history, time_tolerance_minutes)
    /\ pc' = "done"
    /\ UNCHANGED <<receipt, history, lines, parsed, batch_vars>>

NextMatcher == Match

SpecMatcher == InitMatcher /\ [][NextMatcher]_vars

(***************************************************************************)
(* The vocabulary of the claims about the matcher, stated on the strings   *)
(* of the receipt and of the history, not on the matcher's own variables.  *)
(***************************************************************************)
\* the reference lowercased with spaces and dashes removed
ClaimRefs ==
    {<<s, IF s = None THEN None ELSE Lower(RemoveChars(s, {" ", "-"}))>> :
        s \in ReceiptRefs \cup HistoryRefs}
NormRef(s) == Lookup(ClaimRefs, s)
\* the amount as a number (thousandths), NoValue when missing or not a number
ClaimAmounts ==
    {<<s, IF s = None THEN NoValue ELSE Float(RemoveChars(s, {","}))>> :
        s \in ReceiptAmounts \cup HistoryAmounts}
Amount(s) == Lookup(ClaimAmounts, s)
\* the timestamp parsed against the accepted templates, NoValue when unparseable
ClaimTimes ==
    {<<s, IF s = None THEN NoValue ELSE TryFormats(Strip(s), formats)>> :
        s \in ReceiptTimes \cup HistoryTimes}
Time(s) == Lookup(ClaimTimes, s)

SharesRef(rcpt, txn) ==
    /\ rcpt.transaction_id # None /\ txn.ref_number # None
    /\ NormRef(rcpt.transaction_id) = NormRef(txn.ref_number)
\* both amounts are numbers and they differ by less than 0.01, by at most 0.01,
\* by more than 0.01
Within(a, b) == Amount(a) # NoValue /\ Amount(b) # NoValue /\ Abs(Amount(a)[1] - Amount(b)[1]) < 10
WithinOrCent(a, b) ==
    Amount(a) # NoValue /\ Amount(b) # NoValue /\ Abs(Amount(a)[1] - Amount(b)[1]) <= 10
Beyond(a, b) == Amount(a) # NoValue /\ Amount(b) # NoValue /\ Abs(Amount(a)[1] - Amount(b)[1]) > 10
SameAmount(a, b) == Amount(a) # NoValue /\ Amount(a) = Amount(b)
\* both timestamps parse and lie at most tol minutes apart
TimeWithin(a, b, tol) ==
    /\ Time(a) # NoValue /\ Time(b) # NoValue
    /\ Time(a)[1].day = Time(b)[1].day
    /\ Abs(Time(a)[1].sec - Time(b)[1].sec) <= tol * 60

Snapshot(res) == <<res.history_ref, res.history_amount, res.history_time>>
Fields(txn) == <<txn.ref_number, txn.amount, txn.date_time>>
NoSnapshot == <<None, None, None>>
Sharing == {i \in 1..Len(history) : SharesRef(receipt, history[i])}
Done == pc = "done"

\* C1 as claimed: whenever some history entry has the receipt's normalized
\* reference and an amount more than 0.01 away from the receipt's, the verdict is
\* "mismatch".
C1_AnySharedReferenceConflictIsMismatch ==
    Done =>
      \A i \in Sharing :
         Beyond(receipt.amount, history[i].amount) => result.verdict = "mismatch"

\* C1, amended: whenever the first history entry (in list order) that has the
\* receipt's normalized reference has an amount more than 0.01 away from the
\* receipt's, the verdict is "mismatch", whatever the other entries are.
C1_FirstSharedReferenceConflictIsMismatch ==
    Done =>
      (Sharing # {} /\ Beyond(receipt.amount, history[Min(Sharing)].amount)
         => result.verdict = "mismatch")

\* C1's case: the reference conflicts on amount while another entry carries exactly
\* the receipt's amount at a time within tolerance
C1_Witness ==
    /\ Done /\ Sharing # {}
    /\ Amount(receipt.amount) # Just(0)
    /\ Beyond(receipt.amount, history[Min(Sharing)].amount)
    /\ \E k \in 1..Len(history) :
          /\ k \notin Sharing
          /\ SameAmount(receipt.amount, history[k].amount)
          /\ TimeWithin(receipt.time, history[k].date_time, time_tolerance_minutes)
    /\ result.verdict = "mismatch"

\* C2: when some history entry has the receipt's normalized reference, the first
\* such entry alone decides: the verdict is "matched" when both amounts are numbers
\* less than 0.01 apart and "mismatch" when an amount is missing or they are more
\* than 0.01 apart, and the result carries that entry's fields.
C2_FirstSharedReferenceDecides ==
    Done /\ Sharing # {} =>
      LET txn == history[Min(Sharing)]
      IN /\ result.verdict \in {"matched", "mismatch"}
         /\ Snapshot(result) = Fields(txn)
         /\ Within(receipt.amount, txn.amount) => result.verdict = "matched"
         /\ ~WithinOrCent(receipt.amount, txn.amount) => result.verdict = "mismatch"

\* What the code keeps of C2: the same, for a receipt amount other than zero.
C2_HoldsForNonZeroAmounts ==
    Done /\ Sharing # {} /\ Amount(receipt.amount) # Just(0) =>
      LET txn == history[Min(Sharing)]
      IN /\ result.verdict \in {"matched", "mismatch"}
         /\ Snapshot(result) = Fields(txn)
         /\ Within(receipt.amount, txn.amount) => result.verdict = "matched"
         /\ ~WithinOrCent(receipt.amount, txn.amount) => result.verdict = "mismatch"

\* the entries whose amount is the receipt's, is less than 0.01 from it, is at
\* most 0.01 from it
SameAmountHits == {i \in 1..Len(history) : SameAmount(receipt.amount, history[i].amount)}
AmountHits == {i \in 1..Len(history) : Within(receipt.amount, history[i].amount)}
AmountOrCentHits == {i \in 1..Len(history) : WithinOrCent(receipt.amount, history[i].amount)}
\* the entries that, in addition, lie within the time tolerance of the receipt
TimeHits ==
    {i \in AmountHits :
        TimeWithin(receipt.time, history[i].date_time, time_tolerance_minutes)}
TimeOrCentHits ==
    {i \in AmountOrCentHits :
        TimeWithin(receipt.time, history[i].date_time, time_tolerance_minutes)}
ReportsCount(n) ==
    result.details = "Amount " \o receipt.amount \o " found " \o ToString(n)
                     \o " times in history. Cannot determine unique match without ref number."

\* C3: when the receipt has an amount A and exactly two history entries have the
\* amount A, neither sharing the receipt's reference, the verdict is "mismatch"
\* and the rationale reports a count of 2, whatever the receipt's reference and
\* timestamp.
C3_TwoEntriesOfTheAmountAreAmbiguous ==
    Done /\ Amount(receipt.amount) # NoValue /\ Cardinality(SameAmountHits) = 2
         /\ SameAmountHits \cap Sharing = {}
      => result.verdict = "mismatch" /\ ReportsCount(2)

\* What the code keeps of C3: the same, when the amount is not zero, no entry at
\* all shares the receipt's reference, no other entry is within 0.01 of A, and
\* neither of the two lies within the time tolerance of the receipt.
C3_HoldsForNonZeroAmountsOutsideTimeTolerance ==
    Done /\ Amount(receipt.amount) # NoValue /\ Cardinality(SameAmountHits) = 2
         /\ Amount(receipt.amount) # Just(0)
         /\ Sharing = {} /\ AmountOrCentHits = SameAmountHits /\ TimeOrCentHits = {}
      => result.verdict = "mismatch" /\ ReportsCount(2)

\* C4: when no entry shares the receipt's reference, no entry has both the amount
\* and a time within tolerance, and the receipt has an amount, then exactly one
\* entry within 0.01 gives "matched" with that entry as snapshot, and two or more
\* give "mismatch" with no snapshot and their number in the rationale.
C4_AmountOnlyTier ==
    Done /\ Sharing = {} /\ TimeOrCentHits = {} /\ Amount(receipt.amount) # NoValue
      => /\ Cardinality(AmountHits) = 1 /\ AmountOrCentHits = AmountHits
            => /\ result.verdict = "matched"
               /\ Snapshot(result) = Fields(history[Min(AmountHits)])
         /\ Cardinality(AmountHits) >= 2
            => /\ result.verdict = "mismatch"
               /\ Snapshot(result) = NoSnapshot
               /\ \E n \in Cardinality(AmountHits)..Cardinality(AmountOrCentHits) :
                     ReportsCount(n)

\* What the code keeps of C4: the same, for a receipt amount other than zero.
C4_HoldsForNonZeroAmounts ==
    Amount(receipt.amount) # Just(0) => C4_AmountOnlyTier

\* C5: when no entry shares the receipt's reference and the receipt's amount and
\* timestamp both parse, the verdict is "matched" against the first entry, in
\* history order, whose amount is within 0.01 and whose time is at most the
\* tolerance away (the boundary included); an entry beyond the tolerance is not
\* matched by time.
C5_AmountAndTimeTier ==
    Done /\ Sharing = {} /\ Amount(receipt.amount) # NoValue /\ Time(receipt.time) # NoValue
      => /\ TimeHits # {} /\ Min(TimeHits) = Min(TimeOrCentHits)
            => /\ result.verdict = "matched"
               /\ Snapshot(result) = Fields(history[Min(TimeHits)])
         /\ TimeOrCentHits = {}
            => result.details # "Amount and time match (within "
                                 \o ToString(time_tolerance_minutes) \o " min)."

\* What the code keeps of C5: the same, for a receipt amount other than zero.
C5_HoldsForNonZeroAmounts ==
    Amount(receipt.amount) # Just(0) => C5_AmountAndTimeTier

\* C3's case, as found in the code for an amount of zero: two entries of the
\* receipt's amount and the verdict is not "mismatch"
C3_ZeroAmountCase ==
    /\ Done /\ Amount(receipt.amount) = Just(0)
    /\ Cardinality(SameAmountHits) = 2 /\ Sharing = {}
    /\ result.verdict = "not_found"

\* every reordering of a history list
Reorderings(hist) ==
    {[i \in 1..Len(hist) |-> hist[p[i]]] : p \in Permutations(1..Len(hist))}
SameVerdictInEveryOrder ==
    \A hist \in Reorderings(history) :
       match_receipt_to_history(receipt, hist, time_tolerance_minutes).verdict
          = result.verdict

\* C7 as claimed: the verdict is the same for every permutation of the history.
C7_VerdictIgnoresHistoryOrder ==
    Done => SameVerdictInEveryOrder

\* C7, amended: the verdict is the same for every permutation of a history in
\* which at most one entry has the receipt's normalized reference.
C7_VerdictIgnoresOrderUnlessReferenceRepeats ==
    Done /\ Cardinality(Sharing) <= 1 => SameVerdictInEveryOrder

\* C7's case: two different entries of the receipt's amount, the second one alone
\* within the time tolerance, matched whichever comes first
C7_Witness ==
    /\ Done /\ Len(history) = 2 /\ history[1] # history[2]
    /\ Cardinality(Sharing) <= 1
    /\ AmountHits = {1, 2} /\ TimeHits = {2}
    /\ result.verdict = "matched" /\ Snapshot(result) = Fields(history[2])
    /\ SameVerdictInEveryOrder

\* C8: the history snapshot is the chosen entry's fields on every "matched"
\* verdict and on a "mismatch" that is a reference conflict, all three fields are
\* None on "not_found" and on a "mismatch" that is an amount ambiguity, and so
\* the snapshot is populated exactly when an entry was chosen.
C8_SnapshotIffEntryChosen ==
    Done =>
      LET chosen == result.verdict = "matched"
                    \/ (result.verdict = "mismatch" /\ Sharing # {})
      IN /\ result.verdict \in {"matched", "mismatch", "not_found"}
         /\ chosen =>
               \E i \in 1..Len(history) :
                  /\ Snapshot(result) = Fields(history[i])
                  /\ IF Sharing # {} THEN i = Min(Sharing) ELSE i \in AmountOrCentHits
         /\ ~chosen => Snapshot(result) = NoSnapshot
         /\ chosen <=> Snapshot(result) # NoSnapshot

\* C8's case: a reference conflict, reported with the conflicting entry's fields
C8_Witness ==
    /\ Done /\ Sharing # {} /\ result.verdict = "mismatch"
    /\ Beyond(receipt.amount, history[Min(Sharing)].amount)
    /\ Snapshot(result) = Fields(history[Min(Sharing)])
    /\ result.history_ref # None /\ result.history_amount # None

\* C3's other case: an amount ambiguity proper, with no snapshot
C3_Witness ==
    /\ Done /\ Amount(receipt.amount) # NoValue /\ Amount(receipt.amount) # Just(0)
    /\ Cardinality(SameAmountHits) = 2 /\ Sharing = {} /\ TimeOrCentHits = {}
    /\ receipt.transaction_id # None /\ Time(receipt.time) # NoValue
    /\ result.verdict = "mismatch" /\ ReportsCount(2)

(***************************************************************************)
(* The extractors as state machines: OCR lines are given and one call      *)
(* produces the extracted value.  parse_receipt is followed by the match   *)
(* of what it returned against a history.                                  *)
(***************************************************************************)
MaxProviderLines == 3
MaxRefLines == 2
MaxReceiptLines == 2

ProviderLines ==
    {"BDO pay", "bdopay", "Sent via GCash", "G-Xchange Inc", "G", "Cash", "Maya",
     "PayMaya", "Transaction Details", "Transfer from", "cats"}

RefLines ==
    {"Ref No. 7037 651 006674", "Ref: 1234 5678 9012 345 6", "Ref No. 123456789",
     "Ref No.7037\t651\t0066741", "Reference no. BN-20260128-49830535", "Ref No. 7037",
     "651 006674", "cats"}

ReceiptLines ==
    {"cats", "meme", "Order 12 of 30", "Sent via GCash", "Ref No. 7037516197197",
     "Amount 320.00", "Jan 28, 2026 7:58 PM"}

ReceiptInputs ==
    ListsUpTo(ReceiptLines, MaxReceiptLines) \cup {<<"cats", "funny", "meme">>}

ReceiptHistories ==
    ListsUpTo({[ref_number |-> None, amount |-> "320.00", date_time |-> None],
               [ref_number |-> "703751", amount |-> "1000.06", date_time |-> None],
               [ref_number |-> None, amount |-> "1000.06",
                date_time |-> "Jan 28, 2026 7:48 PM"],
               [ref_number |-> "bn12-3", amount |-> None, date_time |-> None]},
              MaxHistory)

InitLines(inputs) ==
    /\ lines \in inputs
    /\ parsed = None
    /\ receipt = [transaction_id |-> None, amount |-> None, time |-> None]
    /\ history = <<>>
    /\ result = NoResult
    /\ NoBatch
    /\ pc = "ready"

InitProvider == InitLines(ListsUpTo(ProviderLines, MaxProviderLines))

DetectProvider ==
    /\ pc = "ready"
    /\ parsed' = detect_provider(lines)
    /\ pc' = "done"
    /\ UNCHANGED <<receipt, history, result, lines, batch_vars>>

NextProvider == DetectProvider

SpecProvider == InitProvider /\ [][NextProvider]_vars

InitRefNo == InitLines(ListsUpTo(RefLines, MaxRefLines))

ExtractRefNo ==
    /\ pc = "ready"
    /\ parsed' = _extract_ref_no(lines)
    /\ pc' = "done"
    /\ UNCHANGED <<receipt, history, result, lines, batch_vars>>

NextRefNo == ExtractRefNo

SpecRefNo == InitRefNo /\ [][NextRefNo]_vars

InitReceipt == InitLines(ReceiptInputs)

ParseReceipt ==
    /\ pc = "ready"
    /\ parsed' = parse_receipt(lines)
    /\ pc' = "parsed"
    /\ UNCHANGED <<receipt, history, result, lines, batch_vars>>

\* the parsed receipt is matched against a history
MatchParsed ==
    /\ pc = "parsed"
    /\ \E hist \in ReceiptHistories :
          /\ history' = hist
          /\ receipt' = [transaction_id |-> parsed.transaction_id,
                         amount |-> parsed.amount, time |-> parsed.time]
          /\ result' = match_receipt_to_history(receipt', hist, time_tolerance_minutes)
    /\ pc' = "done"
    /\ UNCHANGED <<lines, parsed, batch_vars>>

NextReceipt == ParseReceipt \/ MatchParsed

SpecReceipt == InitReceipt /\ [][NextReceipt]_vars

(***************************************************************************)
(* Claims about detect_provider, under SpecProvider.                      *)
(***************************************************************************)
BdoKeywords == {"bdo", "bdopay"}
GcashKeywords == {"gcash", "g cash", "g-xchange"}
PaymayaKeywords == {"paymaya", "maya"}
StructuralKeywords == {"transaction details", "transfer from"}

\* some keyword of keys occurs in the lowercased concatenation of the lines
HasKeyword(keys, ls) == \E w \in keys : Contains(w, Lower(Join(ls)))
HasStructure(ls) == \A w \in StructuralKeywords : Contains(w, Lower(Join(ls)))

\* C9: the provider is that of the first rule, in the order BDO, GCash, PayMaya,
\* structural fallback (GCash), whose keywords occur in the lowercased concatenation
\* of the lines, None when no rule applies; and lines with both a BDO and a GCash
\* keyword are classified "bdo" in every order of the lines.
C9_ProviderByKeywordPriority ==
    Done =>
       /\ parsed = CASE HasKeyword(BdoKeywords, lines) -> "bdo"
                     [] ~HasKeyword(BdoKeywords, lines)
                        /\ HasKeyword(GcashKeywords, lines) -> "gcash"
                     [] ~HasKeyword(BdoKeywords \cup GcashKeywords, lines)
                        /\ HasKeyword(PaymayaKeywords, lines) -> "paymaya"
                     [] ~HasKeyword(BdoKeywords \cup GcashKeywords \cup PaymayaKeywords,
                                    lines)
                        /\ HasStructure(lines) -> "gcash"
                     [] OTHER -> None
       /\ HasKeyword(BdoKeywords, lines) /\ HasKeyword(GcashKeywords, lines)
             => \A ls \in Reorderings(lines) : detect_provider(ls) = "bdo"

\* a GCash keyword on a line before the line of a BDO keyword, classified "bdo"
C9_Witness ==
    /\ Done
    /\ \E i, j \in 1..Len(lines) :
          /\ i < j
          /\ HasKeyword(GcashKeywords, <<lines[i]>>)
          /\ HasKeyword(BdoKeywords, <<lines[j]>>)
    /\ parsed = "bdo"

(***************************************************************************)
(* Claims about _extract_ref_no, under SpecRefNo.                          *)
(***************************************************************************)
\* the numeric labeled strategy is the one that returns
NumericYields(ls) == AlphanumericRef(ls) = <<>> /\ NumericRef(ls) # <<>>

\* the run the numeric labeled pattern captures: on the first line where it matches,
\* in the joined text when it matches on no line
NumericRun(ls) == FirstGroup(_REF_NO_PATTERN, ls \o <<Join(ls)>>, TRUE, 3)[1]

\* the digits of a run of digits and white space
DigitsOf(run) == RemoveChars(run, Space)

\* C10: when the numeric labeled strategy yields the reference, the reference is the
\* first 13 digits of the captured run when the run has more than 13 digits, and all
\* the digits of the run otherwise.
C10_NumericReferenceIsFirstThirteenDigits ==
    Done /\ NumericYields(lines)
       => parsed = Prefix(DigitsOf(NumericRun(lines)), 13)

\* C10 holds of the runs made of digits and the space character only
C10_HoldsForRunsOfDigitsAndSpaces ==
    Done /\ NumericYields(lines) /\ ~Contains("\t", NumericRun(lines))
       => parsed = Prefix(DigitsOf(NumericRun(lines)), 13)

\* a run of more than 13 digits with spaces among them, cut to its first 13 digits
C10_Witness ==
    /\ Done
    /\ NumericYields(lines)
    /\ Contains(" ", NumericRun(lines))
    /\ Len(DigitsOf(NumericRun(lines))) > 13
    /\ parsed = Prefix(DigitsOf(NumericRun(lines)), 13)

\* a run with a tab in it: the reference keeps the tab
C10_TabCase ==
    /\ Done
    /\ NumericYields(lines)
    /\ Contains("\t", NumericRun(lines))
    /\ Contains("\t", parsed)

(***************************************************************************)
(* Claims about parse_receipt followed by match_receipt_to_history, under  *)
(* SpecReceipt.                                                            *)
(***************************************************************************)
\* the pattern is found on some line or in the joined text
Occurs(parts, ls, ic) ==
    \E k \in 1..(Len(ls) + 1) : Found(parts, (ls \o <<Join(ls)>>)[k], ic)

\* lines with no provider keyword, no reference pattern, no amount pattern, no date
Junk(ls) ==
    /\ ~HasKeyword(BdoKeywords \cup GcashKeywords \cup PaymayaKeywords, ls)
    /\ ~HasStructure(ls)
    /\ \A parts \in {_ALPHANUMERIC_REF_PATTERN, _REF_NO_PATTERN, _BDO_REF_PATTERN} :
          ~Occurs(parts, ls, TRUE)
    /\ \A parts \in {_STANDALONE_REF_PATTERN, _SPACED_REF_PATTERN} :
          ~Occurs(parts, ls, FALSE)
    /\ \A parts \in {total_pattern, _AMOUNT_LABEL_PATTERN, _AMOUNT_PATTERN} :
          ~Occurs(parts, ls, TRUE)
    /\ ~Occurs(_PLAIN_AMOUNT_PATTERN, ls, FALSE)
    /\ \A parts \in {_DATETIME_PATTERN, _NUMERIC_DATE_PATTERN} : ~Occurs(parts, ls, TRUE)

\* a record with neither provider nor reference nor amount nor timestamp
Blank(rec) ==
    /\ rec.provider = None
    /\ rec.transaction_id = None
    /\ rec.amount = None
    /\ rec.time = None

\* C6: parse_receipt of lines with no provider keyword, reference pattern, amount
\* pattern or date gives a record whose provider, reference, amount and timestamp are
\* all None, and matching such a record against any history gives "not_found" with no
\* history snapshot.
C6_AbsenceIsAValue ==
    /\ pc = "parsed" /\ Junk(lines) => Blank(parsed)
    /\ pc = "done" /\ Blank(parsed)
          => result.verdict = "not_found" /\ Snapshot(result) = NoSnapshot

\* ["cats", "funny", "meme"] parsed and matched against a history that is not empty
C6_Witness ==
    /\ pc = "done"
    /\ lines = <<"cats", "funny", "meme">>
    /\ history # <<>>
    /\ Blank(parsed)
    /\ result.verdict = "not_found"

\* lines with digits in them and nothing to extract
C6_DigitsWitness ==
    /\ pc = "parsed"
    /\ "Order 12 of 30" \in {lines[k] : k \in 1..Len(lines)}
    /\ Junk(lines)
    /\ Blank(parsed)

(***************************************************************************)
(* C11: the precedence of the reference strategies                         *)
(***************************************************************************)
\* receipt lines with a candidate for each of the five strategies
OrderLines ==
    {"Ref No. 123456789", "Reference no. BN-20260128-49830535", "BN-20260128-49830535",
     "7037516197197", "7037 651 006674", "7037", "651 006674"}

InitRefOrder == InitLines(ListsUpTo(OrderLines, MaxRefLines))

SpecRefOrder == InitRefOrder /\ [][NextRefNo]_vars

\* the lines, and the lines followed by their concatenation
PerLine(ls) == ls
LinesAndJoined(ls) == ls \o <<Join(ls)>>

\* the group captured by the pattern in each of the texts where it is found
Captures(parts, texts, ic, g) ==
    {SearchGroup(parts, texts[k], ic, g) :
        k \in {j \in 1..Len(texts) : Found(parts, texts[j], ic)}}

\* what each strategy can return from the texts it is given, in the order of the
\* strategies: labeled alphanumeric, labeled numeric, unlabeled dashed, standalone
\* 13-digit, spaced digit groups
CandidatesIn(labeled, unlabeled) ==
    <<{Strip(v) : v \in Captures(_ALPHANUMERIC_REF_PATTERN, labeled, TRUE, 3)},
      {_clean_ref(v, 13) : v \in Captures(_REF_NO_PATTERN, labeled, TRUE, 3)},
      Captures(_BDO_REF_PATTERN, unlabeled, TRUE, 2),
      Captures(_STANDALONE_REF_PATTERN, unlabeled, FALSE, 2),
      {Prefix(RemoveChars(v, {" "}), 13) :
          v \in Captures(_SPACED_REF_PATTERN, unlabeled, FALSE, 2)}>>

\* the reference is a candidate of the lowest-numbered strategy that has one, and
\* None exactly when no strategy has one
LowestStrategyWins(ref, candidates) ==
    IF \A k \in 1..Len(candidates) : candidates[k] = {}
    THEN ref = None
    ELSE ref \in candidates[Min({k \in 1..Len(candidates) : candidates[k] # {}})]

\* C11 as claimed: the reference is the match of the lowest-numbered strategy that
\* matches anywhere in the input, every strategy being attempted on each line and then
\* on the concatenated text, and it is None only when no strategy matches.
C11_LowestStrategyMatchingAnywhereWins ==
    Done => LowestStrategyWins(parsed, CandidatesIn(LinesAndJoined(lines),
                                                    LinesAndJoined(lines)))

\* C11 amended: the reference is the match of the lowest-numbered strategy that
\* matches, whichever line each candidate is on, where the two labeled strategies are
\* attempted on each line and then on the concatenated text and the three unlabeled
\* ones on each line only; it is None only when no strategy matches.
C11_LowestStrategyWins ==
    Done => LowestStrategyWins(parsed, CandidatesIn(LinesAndJoined(lines),
                                                    PerLine(lines)))

\* a labeled dashed reference on a later line wins over a labeled numeric one on an
\* earlier line
C11_Witness ==
    /\ Done
    /\ lines = <<"Ref No. 123456789", "Reference no. BN-20260128-49830535">>
    /\ parsed = "BN-20260128-49830535"

\* digit groups that only the concatenated text puts together are not a reference
C11_JoinedOnlyWitness ==
    /\ Done
    /\ lines = <<"7037", "651 006674">>
    /\ parsed = None

(***************************************************************************)
(* The amount extractor as a state machine                                 *)
(***************************************************************************)
MaxAmountLines == 3

\* receipt lines with a total, a headline, an "Amount" label and a service fee
AmountLines ==
    {"Total Amount Sent P420.00", "Total Amount Sent", "₱1,420.00",
     "Service Fee P10.00", "Amount 320.00", "PHP 15.00"}

InitAmount == InitLines(ListsUpTo(AmountLines, MaxAmountLines))

ExtractAmount ==
    /\ pc = "ready"
    /\ parsed' = _extract_amount(lines)
    /\ pc' = "done"
    /\ UNCHANGED <<receipt, history, result, lines, batch_vars>>

NextAmount == ExtractAmount

SpecAmount == InitAmount /\ [][NextAmount]_vars

(***************************************************************************)
(* C12: the "Total Amount Sent" total comes first                          *)
(***************************************************************************)
\* "Total Amount Sent" followed by a two-decimal number, a peso sign or P allowed
\* before the number
LabeledTotal ==
    <<Cat(<<Lit("Total Amount Sent"), Star(Ws), Opt(Cls({"₱", "P"})), Star(Ws)>>),
      TwoDecimals>>

\* each line, and each line with the next one
LinesAndPairs(ls) ==
    ls \o [k \in 1..(Len(ls) - 1) |-> Join(<<ls[k], ls[k + 1]>>)]

\* the numbers that follow "Total Amount Sent" on the same line or on the next
TotalsOf(ls) ==
    {RemoveChars(v, {","}) : v \in Captures(LabeledTotal, LinesAndPairs(ls), TRUE, 2)}

C12_DecoysAroundWitness ==
    /\ Done
    /\ lines = <<"Amount 320.00", "Total Amount Sent P420.00", "PHP 15.00">>
    /\ parsed = "420.00"

(***************************************************************************)
(* C13: the headline comes before the "Amount" label                       *)
(***************************************************************************)
\* a currency prefix (PHP, P or the peso sign) and a two-decimal number, alone
AnyPrefixHeadline ==
    <<Bol, Cat(<<Star(Ws), Alt(<<Lit("PHP"), Cls({"₱", "P"})>>), Star(Ws)>>),
      TwoDecimals, Cat(<<Star(Ws), Eol>>)>>

\* the lines that are a headline by the pattern and no sub-label
HeadlinesBy(pattern, ls) ==
    SelectSeq(ls, LAMBDA line : ~IsSubLabel(line) /\ Found(pattern, line, TRUE))

\* the number of a headline line
HeadlineValue(pattern, line) ==
    RemoveChars(SearchGroup(pattern, line, TRUE, 3), {","})

\* C13 as claimed: with no total present, a line that is only a currency prefix (PHP,
\* P or the peso sign) and a two-decimal number, and no sub-label, is the amount, in
\* preference to "Amount"-labeled and sub-label amounts.
C13_CurrencyHeadlineWins ==
    Done /\ TotalsOf(lines) = {} /\ HeadlinesBy(AnyPrefixHeadline, lines) # <<>>
       => \E k \in 1..Len(HeadlinesBy(AnyPrefixHeadline, lines)) :
             parsed = HeadlineValue(AnyPrefixHeadline,
                                    HeadlinesBy(AnyPrefixHeadline, lines)[k])

\* C13 amended: with no total present, the first line that is only the prefix PHP,
\* white space and a two-decimal number, and no sub-label, is the amount, in
\* preference to "Amount"-labeled and sub-label amounts, wherever those lines are.
C13_PhpHeadlineWins ==
    Done /\ TotalsOf(lines) = {} /\ HeadlinesBy(headline_pattern, lines) # <<>>
       => parsed = HeadlineValue(headline_pattern,
                                 HeadlinesBy(headline_pattern, lines)[1])

\* a PHP headline after an "Amount" label and a service fee
C13_Witness ==
    /\ Done
    /\ lines = <<"Amount 320.00", "Service Fee P10.00", "PHP 15.00">>
    /\ parsed = "15.00"

\* a peso-sign line after an "Amount" label: the label's number is the amount
C13_PesoSignWitness ==
    /\ Done
    /\ lines = <<"Amount 320.00", "₱1,420.00">>
    /\ parsed = "320.00"

(***************************************************************************)
(* The history parser as a state machine: a document of one page, with one *)
(* table or with text only, is parsed into the list of transactions.       *)
(***************************************************************************)
MaxRows == 2
MaxTextLines == 3

\* a header _detect_columns reads, one it reads with an amount column, and one that
\* leaves the positional guess
HeaderRows ==
    {<<"Date and Time", "Description", "Reference No.", "Debit", "Credit", "Balance">>,
     <<"Date", "Particulars", "Ref", "Amount">>,
     <<"1", "2", "3", "4", "5", "6">>}

\* rows with a reference and a debit, a credit only, a zero debit, a reference only,
\* nothing usable, the header repeated, and blank cells only
HistoryRows ==
    {<<"Jan 28, 2026  7:48 PM", "Transfer", "7037 51", "-1,000.06", "", "2,000.00">>,
     <<"Jan 28, 2026", "Cash in", "", "", "₱320.00", None>>,
     <<"", "Balance forward", "", "0.00", "", "500.00">>,
     <<None, "Fee", "bn12-3", "abc", "", "">>,
     <<"", "", "x", "", "", "">>,
     <<"Date and Time", "Description", "Reference No.", "Debit", "Credit", "Balance">>,
     <<"", None, "  ">>}

HistoryTextLines ==
    {"Jan 28, 2026 7:48 PM Transfer", "Ref No. 703751", "P0.00", "PHP 1,000.06", "cats"}

TableDocuments ==
    {[pages |-> <<[tables |-> <<<<header>> \o rows>>, text |-> None]>>] :
        header \in HeaderRows, rows \in ListsUpTo(HistoryRows, MaxRows)}

TextDocuments ==
    {[pages |-> <<[tables |-> <<>>, text |-> text]>>] :
        text \in ListsUpTo(HistoryTextLines, MaxTextLines) \ {<<>>}}

InitHistory ==
    /\ document \in TableDocuments \cup TextDocuments
    /\ history = <<>>
    /\ receipt = [transaction_id |-> None, amount |-> None, time |-> None]
    /\ result = NoResult
    /\ lines = <<>>
    /\ parsed = None
    /\ receipts = <<>>
    /\ results = <<>>
    /\ response = None
    /\ pc = "ready"

ParseHistory ==
    /\ pc = "ready"
    /\ history' = parse_pdf_tables(document)
    /\ pc' = "done"
    /\ UNCHANGED <<receipt, result, lines, parsed, document, receipts, results, response>>

NextHistory == ParseHistory

SpecHistory == InitHistory /\ [][NextHistory]_vars

(***************************************************************************)
(* C14, C15: what the history parser lets into its output                  *)
(***************************************************************************)
OnTablePath == document \in TableDocuments
OnTextPath == document \in TextDocuments

\* the transactions of the output
Output == {history[k] : k \in 1..Len(history)}

\* a string of digits with at most one point, a digit first
IsDecimal(s) ==
    /\ s # None
    /\ Len(s) > 0
    /\ Ch(s, 1) \in Digits
    /\ \A i \in 1..Len(s) : Ch(s, i) \in Digits \cup {"."}
    /\ Cardinality({i \in 1..Len(s) : Ch(s, i) = "."}) <= 1

\* a decimal string that denotes a number above zero
IsPositiveDecimal(s) == IsDecimal(s) /\ \E i \in 1..Len(s) : Ch(s, i) \in Digits \ {"0"}

C14_TextWitness ==
    /\ Done
    /\ OnTextPath
    /\ document.pages[1].text = <<"Jan 28, 2026 7:48 PM Transfer", "cats">>
    /\ history = <<>>

\* C15: every transaction of the output, on the table path and on the text path, has
\* an amount that is absent or a decimal string denoting a number above zero.
C15_AmountAbsentOrPositive ==
    Done => \A txn \in Output : txn.amount = None \/ IsPositiveDecimal(txn.amount)

\* C15 holds on the table path
C15_HoldsOnTablePath ==
    Done /\ OnTablePath
       => \A txn \in Output : txn.amount = None \/ IsPositiveDecimal(txn.amount)

\* a zero debit is rejected and a signed debit with a thousands separator is cleaned
C15_Witness ==
    /\ Done
    /\ OnTablePath
    /\ \E k \in 2..Len(document.pages[1].tables[1]) :
          /\ Len(document.pages[1].tables[1][k]) >= 4
          /\ document.pages[1].tables[1][k][4] = "0.00"
    /\ \E txn \in Output : txn.amount = "1000.06"
    /\ \A txn \in Output : txn.amount # "0.00"

\* the text path takes the amount P0.00 as it stands
C15_ZeroOnTextPath ==
    /\ Done
    /\ OnTextPath
    /\ \E txn \in Output : txn.amount = "0.00"

(***************************************************************************)
(* verify_receipts as a state machine: a batch of receipts and a history   *)
(* are given, and one call produces the list of results.                   *)
(***************************************************************************)
MaxBatch == 2

\* receipts with a reference, with an amount only, with both, and with nothing
BatchReceipts ==
    {<<"a.jpg", [transaction_id |-> "BN-123", amount |-> None, time |-> None]>>,
     <<"b.jpg", [transaction_id |-> None, amount |-> "1,000.06", time |-> None]>>,
     <<"c.jpg", [transaction_id |-> "7037 51", amount |-> "320.00", time |-> None]>>,
     <<"d.jpg", [transaction_id |-> None, amount |-> None, time |-> None]>>}

InitBatch ==
    /\ receipts \in ListsUpTo(BatchReceipts, MaxBatch)
    /\ history \in ReceiptHistories
    /\ results = <<>>
    /\ receipt = [transaction_id |-> None, amount |-> None, time |-> None]
    /\ result = NoResult
    /\ lines = <<>>
    /\ parsed = None
    /\ document = None
    /\ response = None
    /\ pc = "ready"

VerifyReceipts ==
    /\ pc = "ready"
    /\ results' = verify_receipts(receipts, history, time_tolerance_minutes)
    /\ pc' = "done"
    /\ UNCHANGED <<receipt, history, result, lines, parsed, document, receipts, response>>

NextBatch == VerifyReceipts

SpecBatch == InitBatch /\ [][NextBatch]_vars

(***************************************************************************)
(* C18: one result for each receipt, against the same history              *)
(***************************************************************************)
\* the result of one receipt matched alone against the history
MatchedAlone(pair) ==
    WithFilename(match_receipt_to_history(pair[2], history, time_tolerance_minutes),
                 pair[1])

\* one result for each receipt, in the order of the receipts, each the result of its
\* receipt matched alone against the history
OneResultEach ==
    /\ Len(results) = Len(receipts)
    /\ \A k \in 1..Len(receipts) : results[k] = MatchedAlone(receipts[k])

\* the result of a receipt is the same wherever the receipt stands in the batch
SameInEveryBatchOrder ==
    \A p \in Permutations(1..Len(receipts)) :
       LET reordered == [k \in 1..Len(receipts) |-> receipts[p[k]]]
       IN verify_receipts(reordered, history, time_tolerance_minutes)
             = [k \in 1..Len(receipts) |-> results[p[k]]]

\* C18: verify_receipts leaves the history and the receipts as they are and returns
\* one result for each receipt, in input order, equal to match_receipt_to_history of
\* that receipt and the history with the filename attached, whatever the other
\* receipts of the batch and their order.
C18_EachReceiptAgainstTheSameHistory ==
    /\ [](Done => OneResultEach /\ SameInEveryBatchOrder)
    /\ [][history' = history /\ receipts' = receipts]_vars

\* two receipts that match the same history entry: both are matched, the entry is
\* not used up by the first
C18_Witness ==
    /\ Done
    /\ Len(receipts) = 2
    /\ receipts[1][2] = receipts[2][2]
    /\ results[1].verdict = "matched"
    /\ results[2].verdict = "matched"

(***************************************************************************)
(* app.py: the two verify endpoints.  An uploaded file carries what OCR    *)
(* makes of it (lines, or the text of the exception it raises); a history  *)
(* PDF carries its pages, None when pdfplumber cannot open it.             *)
(***************************************************************************)
ALLOWED_TYPES == {"image/jpeg", "image/png", "image/webp", "image/bmp"}

\* raise HTTPException(status_code=..., detail=...)
HTTPException(status_code, detail) == [status_code |-> status_code, detail |-> detail]

\* ReceiptResponse(success=False, error=..., filename=...); confidence and raw_text
\* play no part in the verification and are left out
FailedResponse(error, filename) ==
    [success |-> FALSE, provider |-> None, transaction_id |-> None, amount |-> None,
     time |-> None, error |-> error, filename |-> filename]

\* the ReceiptResponse of a parsed receipt: "is_valid = result.transaction_id is not
\* None or result.amount is not None"
ParsedResponse(res, is_valid, filename) ==
    [success |-> is_valid, provider |-> res.provider,
     transaction_id |-> res.transaction_id, amount |-> res.amount, time |-> res.time,
     error |-> IF is_valid THEN None
               ELSE "Could not extract transaction details. "
                    \o "This may not be a valid GCash/PayMaya/BDO receipt.",
     filename |-> filename]

ResponseOf(res, filename) ==
    ParsedResponse(res, res.transaction_id # None \/ res.amount # None, filename)

\* ocr is what extract_text_with_confidence does with the image: [exception |-> text]
\* or [lines |-> lines]
_process_image(ocr, filename) ==
    IF "exception" \in DOMAIN ocr
    THEN FailedResponse("OCR failed: " \o ocr.exception, filename)
    ELSE IF ocr.lines = <<>>
    THEN FailedResponse("No text detected in image. "
                        \o "Make sure the image is a clear receipt screenshot.", filename)
    ELSE ResponseOf(parse_receipt(ocr.lines), filename)

\* the loop over the uploaded files: one ReceiptResponse for each
ReceiptResponses(files) ==
    [k \in 1..Len(files) |->
        IF files[k].content_type \notin ALLOWED_TYPES
        THEN FailedResponse("Invalid file type '" \o files[k].content_type \o "'.",
                            files[k].filename)
        ELSE _process_image(files[k].ocr, files[k].filename)]

\* the pair <<filename, ReceiptData(...)>> of a response or of a JSON item
ReceiptPair(filename, fields) ==
    <<filename, [provider |-> fields.provider, transaction_id |-> fields.transaction_id,
                 amount |-> fields.amount, time |-> fields.time]>>

\* parsed_receipts: the pairs of the responses that succeeded
ParsedReceipts(responses) ==
    LET succeeded == SelectSeq(responses, LAMBDA resp : resp.success)
    IN [k \in 1..Len(succeeded) |-> ReceiptPair(succeeded[k].filename, succeeded[k])]

\* the verification item of a MatchResult
MatchItem(mr) ==
    [filename |-> mr.receipt_filename, verdict |-> mr.verdict, details |-> mr.details,
     receipt |-> [ref |-> mr.receipt_ref, amount |-> mr.receipt_amount,
                  time |-> mr.receipt_time],
     history_match |-> IF ~Falsy(mr.history_ref) \/ ~Falsy(mr.history_amount)
                       THEN [ref |-> mr.history_ref, amount |-> mr.history_amount,
                             time |-> mr.history_time]
                       ELSE None]

\* the verification item of a receipt that failed OCR
ErrorItem(resp) ==
    [filename |-> resp.filename, verdict |-> "error",
     details |-> IF Falsy(resp.error) THEN "OCR failed for this receipt." ELSE resp.error,
     receipt |-> None, history_match |-> None]

MatchItems(match_results) == [k \in 1..Len(match_results) |-> MatchItem(match_results[k])]

\* "for resp in receipt_responses: if not resp.success: ..."
ErrorItems(responses) ==
    LET failed == SelectSeq(responses, LAMBDA resp : ~resp.success)
    IN [k \in 1..Len(failed) |-> ErrorItem(failed[k])]

\* sum(1 for v in verification_items if v["verdict"] == verdict)
Count(items, verdict) == Cardinality({k \in 1..Len(items) : items[k].verdict = verdict})

\* the report of /verify-receipts
ReceiptsReport(hist, items) ==
    [status_code |-> 200, total_receipts |-> Len(items),
     history_transactions_found |-> Len(hist),
     summary |-> [matched |-> Count(items, "matched"),
                  mismatch |-> Count(items, "mismatch"),
                  not_found |-> Count(items, "not_found"),
                  errors |-> Count(items, "error")],
     results |-> items]

\* the report of /verify-parsed
ParsedReport(hist, items) ==
    [status_code |-> 200, total_receipts |-> Len(items),
     history_transactions_found |-> Len(hist),
     summary |-> [matched |-> Count(items, "matched"),
                  mismatch |-> Count(items, "mismatch"),
                  not_found |-> Count(items, "not_found")],
     results |-> items]

\* "not history_pdf.filename or not history_pdf.filename.lower().endswith(".pdf")"
IsPdfName(filename) ==
    /\ ~Falsy(filename)
    /\ Len(filename) >= 4
    /\ Lower(SubSeq(filename, Len(filename) - 3, Len(filename))) = ".pdf"

\* /verify-receipts once the history is parsed
VerifyUploads(hist, responses) ==
    ReceiptsReport(hist,
                   MatchItems(verify_receipts(ParsedReceipts(responses), hist,
                                              time_tolerance_minutes))
                   \o ErrorItems(responses))

\* "if not history: raise HTTPException"
WithHistory(hist, files) ==
    IF hist = <<>>
    THEN HTTPException(400, "No transactions found in the PDF. "
                           \o "Make sure this is a valid transaction history export.")
    ELSE VerifyUploads(hist, ReceiptResponses(files))

verify_receipts_endpoint(history_pdf, files) ==
    IF ~IsPdfName(history_pdf.filename)
    THEN HTTPException(400, "history_pdf must be a PDF file.")
    ELSE IF history_pdf.pages = None
    THEN HTTPException(400, "Failed to parse PDF: " \o history_pdf.exception)
    ELSE WithHistory(parse_pdf_tables(history_pdf), files)

\* item.get(key, default)
Get(item, key, default) == IF key \in DOMAIN item THEN item[key] ELSE default

\* receipt_pairs: one pair for each item of the JSON array
ReceiptPairs(parsed_list) ==
    [k \in 1..Len(parsed_list) |->
        ReceiptPair(Get(parsed_list[k], "filename", "unknown"),
                    [provider |-> Get(parsed_list[k], "provider", None),
                     transaction_id |-> Get(parsed_list[k], "transaction_id", None),
                     amount |-> Get(parsed_list[k], "amount", None),
                     time |-> Get(parsed_list[k], "time", None)])]

\* receipts_json is what json.loads makes of the form field: [valid |-> FALSE,
\* exception |-> text] when it raises or gives no list, [valid |-> TRUE, list |-> items]
WithParsedHistory(hist, receipts_json) ==
    IF hist = <<>>
    THEN HTTPException(400, "No transactions found in the PDF.")
    ELSE IF ~receipts_json.valid
    THEN HTTPException(400, "Invalid receipts_json: " \o receipts_json.exception)
    ELSE ParsedReport(hist, MatchItems(verify_receipts(ReceiptPairs(receipts_json.list),
                                                       hist, time_tolerance_minutes)))

verify_parsed_endpoint(history_pdf, receipts_json) ==
    IF ~IsPdfName(history_pdf.filename)
    THEN HTTPException(400, "history_pdf must be a PDF file.")
    ELSE IF history_pdf.pages = None
    THEN HTTPException(400, "Failed to parse PDF: " \o history_pdf.exception)
    ELSE WithParsedHistory(parse_pdf_tables(history_pdf), receipts_json)

(***************************************************************************)
(* The verify endpoints as a state machine: a request is given (the        *)
(* history PDF in document, the form of the receipts in receipts) and the  *)
(* endpoint it is sent to answers it.                                      *)
(***************************************************************************)
MaxUploads == 2

\* a PDF pdfplumber cannot open, one without transactions, one with two, and a
\* history file that is no PDF by its name
HistoryPdfs ==
    {[filename |-> "history.pdf", pages |-> None, exception |-> "No /Root object"],
     [filename |-> "history.PDF",
      pages |-> <<[tables |-> <<>>, text |-> <<"cats">>]>>],
     [filename |-> "history.pdf",
      pages |-> <<[tables |->
                      <<<<<<"Date and Time", "Description", "Reference No.", "Debit",
                            "Credit", "Balance">>,
                          <<"Jan 28, 2026  7:48 PM", "Transfer", "7037 51", "-1,000.06",
                            "", "2,000.00">>,
                          <<"Jan 28, 2026", "Cash in", "", "", "₱320.00", None>>>>>>,
                    text |-> <<"Jan 28, 2026 Cash in P320.00">>]>>],
     [filename |-> "history.txt", pages |-> <<[tables |-> <<>>, text |-> <<"cats">>]>>]}

\* uploaded files: no image, OCR raising, no text, text without transaction details,
\* and a receipt
Uploads ==
    {[content_type |-> "application/pdf", ocr |-> [lines |-> <<>>]],
     [content_type |-> "image/png", ocr |-> [exception |-> "cannot identify image file"]],
     [content_type |-> "image/png", ocr |-> [lines |-> <<>>]],
     [content_type |-> "image/jpeg", ocr |-> [lines |-> <<"cats">>]],
     [content_type |-> "image/jpeg",
      ocr |-> [lines |-> <<"Ref No. 7037516197197", "Amount 320.00">>]]}

\* items of the "results" array of /parse-receipts: a parsed receipt, a receipt whose
\* OCR failed, and an item with an amount only
ParsedItems ==
    {[success |-> TRUE, provider |-> "gcash", transaction_id |-> "7037 51",
      amount |-> "1,000.06", time |-> None, error |-> None],
     [success |-> FALSE, provider |-> None, transaction_id |-> None, amount |-> None,
      time |-> None, error |-> "OCR failed: cannot identify image file"],
     [success |-> TRUE, amount |-> "320.00"]}

Filenames == <<"r1.jpg", "r2.jpg", "r3.jpg">>

\* the k-th of the files or items is given the k-th filename
Named(batch) ==
    [k \in 1..Len(batch) |->
        [f \in DOMAIN batch[k] \cup {"filename"} |->
            IF f = "filename" THEN Filenames[k] ELSE batch[k][f]]]

UploadForms ==
    {[endpoint |-> "/verify-receipts", receipts |-> Named(files)] :
        files \in ListsUpTo(Uploads, MaxUploads) \ {<<>>}}

ParsedForms ==
    {[endpoint |-> "/verify-parsed",
      receipts_json |-> [valid |-> FALSE, exception |-> "Expected a JSON array"]]}
    \cup {[endpoint |-> "/verify-parsed",
           receipts_json |-> [valid |-> TRUE, list |-> Named(items)]] :
             items \in ListsUpTo(ParsedItems, MaxUploads)}

InitVerify ==
    /\ document \in HistoryPdfs
    /\ receipts \in UploadForms \cup ParsedForms
    /\ response = None
    /\ results = <<>>
    /\ history = <<>>
    /\ receipt = [transaction_id |-> None, amount |-> None, time |-> None]
    /\ result = NoResult
    /\ lines = <<>>
    /\ parsed = None
    /\ pc = "ready"

VerifyReceiptsEndpoint ==
    /\ pc = "ready"
    /\ receipts.endpoint = "/verify-receipts"
    /\ response' = verify_receipts_endpoint(document, receipts.receipts)
    /\ pc' = "done"
    /\ UNCHANGED <<receipt, history, result, lines, parsed, document, receipts, results>>

VerifyParsedEndpoint ==
    /\ pc = "ready"
    /\ receipts.endpoint = "/verify-parsed"
    /\ response' = verify_parsed_endpoint(document, receipts.receipts_json)
    /\ pc' = "done"
    /\ UNCHANGED <<receipt, history, result, lines, parsed, document, receipts, results>>

NextVerify == VerifyReceiptsEndpoint \/ VerifyParsedEndpoint

SpecVerify == InitVerify /\ [][NextVerify]_vars

(***************************************************************************)
(* C16: failures are reported as errors, not as "not_found"                *)
(***************************************************************************)
\* the history document cannot be parsed or has no transactions
HistoryUnread ==
    /\ IsPdfName(document.filename)
    /\ document.pages = None \/ parse_pdf_tables(document) = <<>>

\* the request ended in an error response: no receipt has a verdict
IsErrorResponse(resp) == resp.status_code # 200 /\ "results" \notin DOMAIN resp

\* the files whose OCR or extraction failed, by filename
FailedUploads ==
    {receipts.receipts[k].filename : k \in
        {j \in 1..Len(receipts.receipts) :
            LET file == receipts.receipts[j]
            IN /\ file.content_type \in ALLOWED_TYPES
               /\ \/ "exception" \in DOMAIN file.ocr
                  \/ file.ocr.lines = <<>>
                  \/ /\ _extract_ref_no(file.ocr.lines) = None
                     /\ _extract_amount(file.ocr.lines) = None}}

\* the items of a JSON array that stand for a receipt whose OCR or extraction failed
FailedItems ==
    {receipts.receipts_json.list[k].filename : k \in
        {j \in 1..Len(receipts.receipts_json.list) :
            ~Get(receipts.receipts_json.list[j], "success", TRUE)}}

\* each of the files has an item in the report, and its verdict is "error"
ReportedAsErrors(filenames) ==
    \A f \in filenames :
       /\ \E k \in 1..Len(response.results) : response.results[k].filename = f
       /\ \A k \in 1..Len(response.results) :
             response.results[k].filename = f => response.results[k].verdict = "error"

HistoryFailureIsAnError == Done /\ HistoryUnread => IsErrorResponse(response)

FailedUploadsAreErrors ==
    Done /\ receipts.endpoint = "/verify-receipts" /\ response.status_code = 200
       => ReportedAsErrors(FailedUploads)

FailedItemsAreErrors ==
    Done /\ receipts.endpoint = "/verify-parsed" /\ response.status_code = 200
       => ReportedAsErrors(FailedItems)

\* C16: in both verify endpoints a history document that cannot be parsed or has no
\* transactions ends the request in an error response, no receipt having a verdict,
\* and a receipt whose OCR or extraction failed is reported with the verdict "error",
\* never "not_found".
C16_FailuresAreErrors ==
    /\ HistoryFailureIsAnError
    /\ FailedUploadsAreErrors
    /\ FailedItemsAreErrors

\* C16 holds of the history in both endpoints and of the receipts in /verify-receipts
C16_HoldsOfHistoryAndOfUploads ==
    /\ HistoryFailureIsAnError
    /\ FailedUploadsAreErrors

\* /verify-receipts with a file whose OCR raised and a receipt: one "error", one verdict
C16_Witness ==
    /\ Done
    /\ receipts.endpoint = "/verify-receipts"
    /\ response.status_code = 200
    /\ FailedUploads # {}
    /\ \E k \in 1..Len(response.results) : response.results[k].verdict = "matched"
    /\ \E k \in 1..Len(response.results) : response.results[k].verdict = "error"

\* a PDF without transactions: the request ends in an error
C16_NoTransactionsWitness ==
    /\ Done
    /\ document.pages # None
    /\ HistoryUnread
    /\ response.status_code = 400

\* /verify-parsed with the item of a receipt whose OCR failed: "not_found"
C16_FailedItemNotFound ==
    /\ Done
    /\ receipts.endpoint = "/verify-parsed"
    /\ response.status_code = 200
    /\ \E k \in 1..Len(response.results) :
          /\ response.results[k].filename \in FailedItems
          /\ response.results[k].verdict = "not_found"

(***************************************************************************)
(* The date and time of a receipt, as a state machine                      *)
(***************************************************************************)
MaxTimeLines == 2

TimeLines ==
    {"Feb 12, 202610:59PM", "February  5,\t2026   7:23 pm ", "01/28/202619:58",
     "2026-01-2819:58", "01/28/2026   19:58", "2026-01-28 7:58 PM", "Sent 01/28/2026",
     "cats"}

InitTime == InitLines(ListsUpTo(TimeLines, MaxTimeLines))

ExtractTime ==
    /\ pc = "ready"
    /\ parsed' = _extract_time(lines)
    /\ pc' = "done"
    /\ UNCHANGED <<receipt, history, result, lines, batch_vars>>

NextTime == ExtractTime

SpecTime == InitTime /\ [][NextTime]_vars

(***************************************************************************)
(* C19: the year and the time that OCR has merged                          *)
(***************************************************************************)
\* some line holds a date of the pattern once it is normalized
DateAfterNormalizing(pattern, ls) ==
    \E k \in 1..Len(ls) : Found(pattern, _normalize_spaces(ls[k]), TRUE)

\* some line holds the year of a date run together with the time
MergedDate(pattern, ls) ==
    \E k \in 1..Len(ls) :
       /\ Found(pattern, _normalize_spaces(ls[k]), TRUE)
       /\ Found(merged_time_pattern, ls[k], FALSE)

\* a timestamp with one space between year and time and between any two words
SingleSpaced(text) ==
    /\ text # None
    /\ ~Found(merged_time_pattern, text, FALSE)
    /\ \A i \in 1..Len(text) :
          Ch(text, i) \in Space =>
             /\ Ch(text, i) = " "
             /\ i > 1 /\ i < Len(text)
             /\ Ch(text, i + 1) \notin Space

\* C19: the lines are normalized before either date pattern is matched, so a date
\* of the month-name form or of the numeric form whose year is run together with
\* the time is extracted, and the timestamp returned has one space between the
\* year and the time and one space for every run of whitespace.
C19_MergedDatesAreExtracted ==
    Done /\ (DateAfterNormalizing(_DATETIME_PATTERN, lines)
             \/ DateAfterNormalizing(_NUMERIC_DATE_PATTERN, lines))
       => SingleSpaced(parsed)

\* C19 holds of dates of the month-name form, whose pattern lets the time follow the
\* year at once, and a timestamp that is returned is single-spaced
C19_HoldsOfMonthNameDates ==
    /\ Done /\ DateAfterNormalizing(_DATETIME_PATTERN, lines) => SingleSpaced(parsed)
    /\ Done /\ parsed # None => SingleSpaced(parsed)

\* "Feb 12, 202610:59PM" is returned as "Feb 12, 2026 10:59PM"
C19_Witness ==
    /\ Done
    /\ MergedDate(_DATETIME_PATTERN, lines)
    /\ parsed = "Feb 12, 2026 10:59PM"

\* a numeric date run together with its time is not extracted
C19_MergedNumericDateLost ==
    /\ Done
    /\ MergedDate(_NUMERIC_DATE_PATTERN, lines)
    /\ parsed = None

(***************************************************************************)
(* The matcher on timestamps that parse and on timestamps that do not      *)
(***************************************************************************)
TimestampReceipts ==
    [transaction_id : {None, "BN-123"}, amount : {None, "1,000.06"},
     time : {None, "01/28/2026 19:58", "soon", "Jan 28, 2026 7:58 PM"}]

TimestampEntries ==
    {[ref_number |-> None, amount |-> "1000.06", date_time |-> t] :
        t \in {None, "Jan 28, 2026 7:48 PM", "Jan 28 around 8 PM", "2026-01-28T19:58"}}
    \cup {[ref_number |-> "bn12-3", amount |-> "320.00",
           date_time |-> "Jan 28, 2026 7:58 PM"]}

InitTimestamps ==
    /\ receipt \in TimestampReceipts
    /\ history \in ListsUpTo(TimestampEntries, MaxHistory)
    /\ result = NoResult
    /\ lines = <<>>
    /\ parsed = None
    /\ NoBatch
    /\ pc = "ready"

SpecTimestamps == InitTimestamps /\ [][NextMatcher]_vars

(***************************************************************************)
(* C20: a timestamp that does not parse is a timestamp that is absent      *)
(***************************************************************************)
\* the string is there and no template of _parse_time accepts it
Unparseable(time_str) == time_str # None /\ _parse_time(time_str) = NoValue

\* the result of the amount+time tier
ByAmountAndTime(res) ==
    /\ res.verdict = "matched"
    /\ res.details = "Amount and time match (within "
                        \o ToString(time_tolerance_minutes) \o " min)."

\* what the matcher returns for the receipt without its timestamp, the timestamp
\* echoed in the result set aside
AsIfWithoutTimestamp(rcpt, hist) ==
    [match_receipt_to_history([rcpt EXCEPT !.time = None], hist, time_tolerance_minutes)
        EXCEPT !.receipt_time = rcpt.time]

\* C20: a receipt whose timestamp no template accepts skips the amount+time tier and
\* is decided as the same receipt without a timestamp is, and the amount+time tier
\* never selects a history entry whose timestamp is missing or does not parse.
C20_UnparseableTimestampIsAbsent ==
    Done =>
       /\ Unparseable(receipt.time) =>
             /\ ~ByAmountAndTime(result)
             /\ result = AsIfWithoutTimestamp(receipt, history)
       /\ ByAmountAndTime(result) => _parse_time(result.history_time) # NoValue

\* a receipt with an unparseable timestamp among entries of its amount of which one
\* is within the tolerance of what the timestamp was meant to be: not matched by time
C20_Witness ==
    /\ Done
    /\ Unparseable(receipt.time)
    /\ receipt.amount # None
    /\ \E i \in 1..Len(history) : history[i].date_time = "Jan 28, 2026 7:48 PM"
    /\ \E i \in 1..Len(history) : Unparseable(history[i].date_time)
    /\ result.verdict = "mismatch"

\* the amount+time tier passes over the entry whose timestamp does not parse
C20_PassedOverWitness ==
    /\ Done
    /\ Len(history) = 2
    /\ Unparseable(history[1].date_time)
    /\ ByAmountAndTime(result)
    /\ result.history_time = history[2].date_time

(***************************************************************************)
(* One table row as a state machine: a row and a column map are given and  *)
(* _row_to_transaction makes the transaction of them.                      *)
(***************************************************************************)
MaxCells == 3

RowCells == {None, "-1,000.06", "₱320.00", "0.00", "abc"}

\* column maps with all three amount columns, without a debit column, with the
\* debit column last, and without any amount column
ColumnMaps ==
    {[debit |-> 0, credit |-> 1, amount |-> 2],
     [credit |-> 0, amount |-> 1],
     [amount |-> 0, credit |-> 1, debit |-> 2],
     [date_time |-> 0, ref_number |-> 1]}

InitRow ==
    /\ document \in {[row |-> row, col_map |-> col_map] :
                        row \in ListsUpTo(RowCells, MaxCells), col_map \in ColumnMaps}
    /\ history = <<>>
    /\ receipt = [transaction_id |-> None, amount |-> None, time |-> None]
    /\ result = NoResult
    /\ lines = <<>>
    /\ parsed = None
    /\ receipts = <<>>
    /\ results = <<>>
    /\ response = None
    /\ pc = "ready"

RowToTransaction ==
    /\ pc = "ready"
    /\ parsed' = _row_to_transaction(document.row, document.col_map)
    /\ pc' = "done"
    /\ UNCHANGED <<receipt, history, result, lines, document, receipts, results, response>>

NextRow == RowToTransaction

SpecRow == InitRow /\ [][NextRow]_vars

(***************************************************************************)
(* C21: the direction of a row                                             *)
(***************************************************************************)
\* the cell of the row in the column of the field, None when there is none
CellOf(field) == get(document.row, document.col_map, field)

\* a cell that _clean_amount makes an amount of
Usable(cell) == _clean_amount(cell) # None

\* the transaction has the amount of the cell and the direction
Gives(txn, cell, direction) ==
    txn.amount = _clean_amount(cell) /\ txn.direction = direction

\* C21: a usable debit cell gives the amount of the debit cell and the direction
\* "debit", whatever the credit and amount cells hold; otherwise a usable credit cell
\* gives "credit"; otherwise a usable amount cell gives "unknown"; otherwise the
\* amount and the direction are both None.
C21_DirectionByFirstUsableCell ==
    Done =>
       /\ Usable(CellOf("debit")) => Gives(parsed, CellOf("debit"), "debit")
       /\ ~Usable(CellOf("debit")) /\ Usable(CellOf("credit"))
             => Gives(parsed, CellOf("credit"), "credit")
       /\ ~Usable(CellOf("debit")) /\ ~Usable(CellOf("credit")) /\ Usable(CellOf("amount"))
             => Gives(parsed, CellOf("amount"), "unknown")
       /\ ~Usable(CellOf("debit")) /\ ~Usable(CellOf("credit")) /\ ~Usable(CellOf("amount"))
             => parsed.amount = None /\ parsed.direction = None

\* a row whose debit, credit and amount cells are all usable and differ
C21_Witness ==
    /\ Done
    /\ document.col_map = [amount |-> 0, credit |-> 1, debit |-> 2]
    /\ document.row = <<"₱320.00", "₱320.00", "-1,000.06">>
    /\ parsed.amount = "1000.06"
    /\ parsed.direction = "debit"

\* a zero debit is passed over for the credit cell
C21_ZeroDebitWitness ==
    /\ Done
    /\ CellOf("debit") = "0.00"
    /\ Usable(CellOf("credit"))
    /\ parsed.direction = "credit"

(***************************************************************************)
(* One table as a state machine: a document of one page with one table of  *)
(* up to MaxTableRows rows, with or without a header, is parsed.           *)
(***************************************************************************)
MaxTableRows == 3

\* a title, a header, a transaction, a transaction whose description has the words
\* of a header, a row without amount and reference, and a short row
TableRows ==
    {<<"Statement of Account", "", "", "", "", "">>,
     <<"Date and Time", "Description", "Reference No.", "Debit", "Credit", "Balance">>,
     <<"Jan 28, 2026  7:48 PM", "Transfer", "7037 51", "-1,000.06", "", "2,000.00">>,
     <<"Jan 28, 2026", "Update description", "", "", "₱320.00", "">>,
     <<"", "Balance forward", "", "0.00", "", "500.00">>,
     <<"Page 1">>}

InitTable ==
    /\ document \in {[pages |-> <<[tables |-> <<table>>, text |-> None]>>] :
                        table \in ListsUpTo(TableRows, MaxTableRows)}
    /\ history = <<>>
    /\ receipt = [transaction_id |-> None, amount |-> None, time |-> None]
    /\ result = NoResult
    /\ lines = <<>>
    /\ parsed = None
    /\ receipts = <<>>
    /\ results = <<>>
    /\ response = None
    /\ pc = "ready"

SpecTable == InitTable /\ [][NextHistory]_vars

(***************************************************************************)
(* C22: which row is the header, which columns it gives, which rows are    *)
(* emitted                                                                 *)
(***************************************************************************)
TheTable == document.pages[1].tables[1]

Detected(row) == Cardinality(DOMAIN _detect_columns(row))

\* (date, description, reference, debit, credit, balance)
FixedLayout == <<"date_time", "description", "ref_number", "debit", "credit", "balance">>

\* the fixed layout for rows of n columns, the balance only where there are 6
LayoutOf(n) ==
    [f \in {FixedLayout[i] : i \in 1..(IF n >= 6 THEN 6 ELSE 5)} |->
        (CHOOSE i \in 1..6 : FixedLayout[i] = f) - 1]

\* the columns a header row gives: its detected fields, or the fixed layout where
\* fewer than two are detected and the row has at least 5 columns
ColumnsBy(header_row) ==
    IF Detected(header_row) < 2 /\ Len(header_row) >= 5 THEN LayoutOf(Len(header_row))
    ELSE _detect_columns(header_row)

\* the transactions of the rows among data_rows that are kept, in order, where a
\* transaction needs an amount or a reference
EmittedOf(data_rows, col_map, Kept(_)) ==
    LET kept == SelectSeq(data_rows, Kept)
    IN SelectSeq([k \in 1..Len(kept) |-> _row_to_transaction(kept[k], col_map)],
                 LAMBDA txn : txn.amount # None \/ txn.ref_number # None)

\* the output where row h of the table is the header
EmittedBelow(table, h, Kept(_)) ==
    EmittedOf(SubSeq(table, h + 1, Len(table)), ColumnsBy(table[h]), Kept)

NonEmpty(row) == \E k \in 1..Len(row) : ~IsBlank(row[k])

\* a row whose text has the words of a header
LooksLikeHeader(row) ==
    /\ \E k \in 1..Len(row) : row[k] # None /\ Contains("date", Lower(row[k]))
    /\ \E k \in 1..Len(row) : row[k] # None /\ Contains("description", Lower(row[k]))

\* C22: where the first row of a table gives fewer than two fields the next row is
\* tried as the header; where that gives fewer than two and has at least 5 columns
\* the fixed layout is used; and the output is made of every non-empty row below
\* the header that carries an amount or a reference.
C22_NextRowIsTriedAndEveryRowEmitted ==
    Done /\ Len(TheTable) >= 2 =>
       history = EmittedBelow(TheTable, IF Detected(TheTable[1]) < 2 THEN 2 ELSE 1,
                              NonEmpty)

\* C22 as the code has it: the next row is tried only in a table of more than two
\* rows (else the first row stays the header), and a row that looks like a header
\* repeated is not emitted
C22_NextRowIsTriedInLongerTables ==
    Done /\ Len(TheTable) >= 2 =>
       history = EmittedBelow(TheTable,
                              IF Detected(TheTable[1]) < 2 /\ Len(TheTable) > 2
                              THEN 2 ELSE 1,
                              LAMBDA row : NonEmpty(row) /\ ~LooksLikeHeader(row))

\* a title, a header and a transaction: the second row is the header
C22_Witness ==
    /\ Done
    /\ Len(TheTable) = 3
    /\ Detected(TheTable[1]) < 2
    /\ Detected(TheTable[2]) >= 2
    /\ Len(history) = 1
    /\ history[1].ref_number = "703751"
    /\ history[1].direction = "debit"

\* no header in the first two rows: the fixed layout is used for the third
C22_FixedLayoutWitness ==
    /\ Done
    /\ Len(TheTable) = 3
    /\ Detected(TheTable[1]) < 2
    /\ Detected(TheTable[2]) < 2
    /\ Len(TheTable[2]) >= 5
    /\ Len(history) = 1
    /\ history[1].amount = "1000.06"
    /\ history[1].balance = "2000.00"

\* a title and a transaction: the transaction is not tried as the header
C22_TwoRowsWitness ==
    /\ Done
    /\ Len(TheTable) = 2
    /\ Detected(TheTable[1]) < 2
    /\ Len(history) = 1

\* a transaction whose description has the words of a header is not emitted
C22_LooksLikeHeaderWitness ==
    /\ Done
    /\ Len(TheTable) = 2
    /\ Detected(TheTable[1]) >= 2
    /\ Len(TheTable[2]) >= 5
    /\ TheTable[2][5] = "₱320.00"
    /\ history = <<>>

(***************************************************************************)
(* The header row as a state machine: a header that names each of the six  *)
(* fields in one cell is given and _detect_columns makes the column map.   *)
(***************************************************************************)
\* the names a statement gives to the columns
ColumnNames ==
    [date_time : {"Date", "Date and Time", "Timestamp"},
     description : {"Description", "Particulars", "Details"},
     ref_number : {"Reference No.", "Ref #"},
     debit : {"Debit", "Money Out"},
     credit : {"Credit", "Money In"},
     balance : {"Balance", "Running Balance", "Available Balance"}]

\* the order of the columns
ColumnOrders ==
    {<<"date_time", "description", "ref_number", "debit", "credit", "balance">>,
     <<"date_time", "ref_number", "description", "balance", "debit", "credit">>}

InitColumns ==
    /\ document \in [names : ColumnNames, order : ColumnOrders]
    /\ lines = <<>>
    /\ history = <<>>
    /\ receipt = [transaction_id |-> None, amount |-> None, time |-> None]
    /\ result = NoResult
    /\ parsed = None
    /\ receipts = <<>>
    /\ results = <<>>
    /\ response = None
    /\ pc = "ready"

\* the header row of the names in their order
HeaderRow(doc) == [k \in 1..Len(doc.order) |-> doc.names[doc.order[k]]]

DetectColumns ==
    /\ pc = "ready"
    /\ parsed' = _detect_columns(HeaderRow(document))
    /\ pc' = "done"
    /\ UNCHANGED <<receipt, history, result, lines, document, receipts, results, response>>

NextColumns == DetectColumns

SpecColumns == InitColumns /\ [][NextColumns]_vars

(***************************************************************************)
(* C23: each field is mapped to the index of the cell that names it        *)
(***************************************************************************)
\* the 0-based index of the cell that names the field
OwnIndex(doc, field) == (CHOOSE k \in 1..Len(doc.order) : doc.order[k] = field) - 1

OwnIndices(doc) == [f \in {doc.order[k] : k \in 1..Len(doc.order)} |-> OwnIndex(doc, f)]

\* the words a debit or credit column is known by inside other words
DirectionWords == {"debit", "out", "credit", "in"}

\* the balance cell has none of the words of a debit or credit column in it
PlainBalance(doc) ==
    \A w \in DirectionWords : ~Contains(w, Lower(doc.names.balance))

\* C23: in a header row whose cells name date, description, reference, debit, credit
\* and balance, one field per cell, each field is mapped to the index of its own
\* cell; a cell such as "Running Balance" is mapped to balance and does not replace
\* the credit column.
C23_EachFieldToItsOwnCell == Done => parsed = OwnIndices(document)

\* C23 holds where the balance cell has no "in" and no "out" in it
C23_HoldsForPlainBalance == Done /\ PlainBalance(document) => parsed = OwnIndices(document)

\* "Running Balance" is taken for the credit column and no balance is mapped
C23_RunningBalanceIsCredit ==
    /\ Done
    /\ document.names.balance = "Running Balance"
    /\ document.names.credit = "Credit"
    /\ document.order[6] = "balance"
    /\ parsed.credit = 5
    /\ "balance" \notin DOMAIN parsed

\* "Available Balance" after "Money In": each of the six fields at its own index
C23_Witness ==
    /\ Done
    /\ document.names.balance = "Available Balance"
    /\ document.names.credit = "Money In"
    /\ document.order[4] = "balance"
    /\ parsed.balance = 3
    /\ parsed.credit = 5
    /\ Cardinality(DOMAIN parsed) = 6

(***************************************************************************)
(* The text of a page as a state machine: a document of one page without   *)
(* tables, with dates, references and amounts on its lines, is parsed.     *)
(***************************************************************************)
PairingLines ==
    {"Jan 28, 2026 7:48 PM Transfer", "Feb 5, 2026 Cash in P320.00", "Ref No. 703751",
     "Reference# BN-20260128", "PHP 1,000.06", "cats"}

InitText ==
    /\ document \in {[pages |-> <<[tables |-> <<>>, text |-> text]>>] :
                        text \in ListsUpTo(PairingLines, MaxTextLines) \ {<<>>}}
    /\ history = <<>>
    /\ receipt = [transaction_id |-> None, amount |-> None, time |-> None]
    /\ result = NoResult
    /\ lines = <<>>
    /\ parsed = None
    /\ receipts = <<>>
    /\ results = <<>>
    /\ response = None
    /\ pc = "ready"

SpecText == InitText /\ [][NextHistory]_vars

(***************************************************************************)
(* C24: the date an entry of the text path carries                         *)
(***************************************************************************)
TheText == document.pages[1].text

\* what the three patterns find on each line of the pool, computed once
FoundOn ==
    [line \in PairingLines |->
        [date |-> FirstGroup(_DATE_PATTERN, <<Strip(line)>>, TRUE, 1),
         ref |-> FirstGroup(_REF_IN_TEXT, <<Strip(line)>>, TRUE, 3),
         amount |-> FirstGroup(_AMOUNT_IN_TEXT, <<Strip(line)>>, TRUE, 3)]]

\* what the three patterns find on line k of the text
DateOn(text, k) == FoundOn[text[k]].date
RefOn(text, k) == FoundOn[text[k]].ref
AmountOn(text, k) == FoundOn[text[k]].amount

\* the lines with a date on them
DateLines(text) == {k \in 1..Len(text) : DateOn(text, k) # <<>>}

\* the line of the most recent date at or before line k, 0 where none precedes
DateLineFor(text, k) ==
    LET before == {d \in DateLines(text) : d <= k}
    IN IF before = {} THEN 0 ELSE CHOOSE d \in before : \A e \in before : e <= d

\* the lines that stand under the date of line d (under no date for d = 0)
Under(text, d) == {k \in 1..Len(text) : DateLineFor(text, k) = d}

\* the last of the lines ks
Last(ks) == CHOOSE k \in ks : \A j \in ks : j <= k

\* the entry of the lines under the date of line d: that date, and the reference and
\* the amount found last among those lines
EntryUnder(text, d) ==
    LET with_ref == {k \in Under(text, d) : RefOn(text, k) # <<>>}
        with_amount == {k \in Under(text, d) : AmountOn(text, k) # <<>>}
    IN [date_time |-> IF d = 0 THEN None ELSE Strip(DateOn(text, d)[1]),
        ref_number |-> IF with_ref = {} THEN None ELSE RefOn(text, Last(with_ref))[1],
        amount |-> IF with_amount = {} THEN None
                   ELSE RemoveChars(AmountOn(text, Last(with_amount))[1], {","})]

RECURSIVE EntriesFrom(_, _)
\* the entries of the dates from line d on, in the order of the lines, a date without
\* reference and amount giving none
EntriesFrom(text, d) ==
    IF d > Len(text) THEN <<>>
    ELSE (IF (d = 0 \/ d \in DateLines(text))
             /\ (EntryUnder(text, d).ref_number # None \/ EntryUnder(text, d).amount # None)
          THEN <<EntryUnder(text, d)>> ELSE <<>>)
         \o EntriesFrom(text, d + 1)

\* date, reference and amount of the transactions
Dated(transactions) ==
    [k \in 1..Len(transactions) |->
        [date_time |-> transactions[k].date_time,
         ref_number |-> transactions[k].ref_number, amount |-> transactions[k].amount]]

\* C24: every entry of the text path carries the most recent date found at or before
\* the lines of its reference and amount (None where no date precedes them); a
\* pending reference or amount is emitted when the next date appears or the text
\* ends, and a date with no reference or amount before the next date gives no entry.
C24_EntryCarriesTheDateInForce == Done => Dated(history) = EntriesFrom(TheText, 0)

\* a reference, then a date, then a line with a date and an amount: three entries,
\* the first without a date
C24_Witness ==
    /\ Done
    /\ TheText = <<"Ref No. 703751", "Jan 28, 2026 7:48 PM Transfer",
                   "Feb 5, 2026 Cash in P320.00">>
    /\ Len(history) = 2
    /\ history[1].date_time = None
    /\ history[2].date_time = "Feb 5, 2026"
    /\ history[2].amount = "320.00"

\* a date without reference and amount gives no entry
C24_BareDateWitness ==
    /\ Done
    /\ TheText = <<"Jan 28, 2026 7:48 PM Transfer", "Feb 5, 2026 Cash in P320.00",
                   "Ref No. 703751">>
    /\ Len(history) = 1
    /\ history[1].date_time = "Feb 5, 2026"
    /\ history[1].ref_number = "703751"

(***************************************************************************)
(* References that OCR has split across lines                              *)
(***************************************************************************)
\* labels without their reference, references without their label, and digit groups
JoinedLines ==
    {"Ref No. 7037", "Ref No.", "Reference no.", "BN-2026-0128", "7037", "651 006674",
     "123456789", "cats"}

InitRefJoined == InitLines(ListsUpTo(JoinedLines, MaxRefLines))

SpecRefJoined == InitRefJoined /\ [][NextRefNo]_vars

(***************************************************************************)
(* C25: which strategies search the concatenated text                      *)
(***************************************************************************)
\* no strategy has a candidate on a single line
NoLineMatches(ls) ==
    \A k \in 1..5 : CandidatesIn(PerLine(ls), PerLine(ls))[k] = {}

\* C25: each of the five strategies is attempted on each line and then on the
\* concatenated text, so a reference that no single line has and that the
\* space-joined text has is found by the strategy that matches it there.
C25_EveryStrategySearchesJoinedText ==
    Done /\ NoLineMatches(lines)
       => LowestStrategyWins(parsed, CandidatesIn(<<Join(lines)>>, <<Join(lines)>>))

\* C25 amended: the two labeled strategies are attempted on each line and then on the
\* concatenated text, the three unlabeled ones on each line only; a reference that no
\* single line has is found exactly when a labeled strategy matches the joined text.
C25_LabeledStrategiesSearchJoinedText ==
    Done /\ NoLineMatches(lines)
       => LowestStrategyWins(parsed, CandidatesIn(<<Join(lines)>>, <<>>))

\* a label and the first digit group on one line, the other groups on the next
C25_Witness ==
    /\ Done
    /\ lines = <<"Ref No. 7037", "651 006674">>
    /\ NoLineMatches(lines)
    /\ parsed = "7037651006674"

\* a label on one line and a dashed reference on the next
C25_DashedWitness ==
    /\ Done
    /\ lines = <<"Reference no.", "BN-2026-0128">>
    /\ NoLineMatches(lines)
    /\ parsed = "BN-2026-0128"

\* the digit groups of an unlabeled reference on two lines are not put together
C25_UnlabeledGroupsLost ==
    /\ Done
    /\ lines = <<"7037", "651 006674">>
    /\ CandidatesIn(<<>>, <<Join(lines)>>)[5] = {"7037651006674"}
    /\ parsed = None

(***************************************************************************)
(* C26: the shape of a reference of the numeric labeled strategy           *)
(***************************************************************************)
AllDigits(s) == \A i \in 1..Len(s) : Ch(s, i) \in Digits

\* C26: when the numeric labeled strategy yields the reference, the reference is
\* made of digits only and has at least 9 and at most 13 of them.
C26_NineToThirteenDigits ==
    Done /\ NumericYields(lines)
       => AllDigits(parsed) /\ Len(parsed) >= 9 /\ Len(parsed) <= 13

\* C26 holds of the upper bound, and of the digits where the white space of the
\* captured run is made of space characters; the captured run, not the reference,
\* has at least 9 characters
C26_AtMostThirteenDigits ==
    Done /\ NumericYields(lines)
         /\ NumericRun(lines) = RemoveChars(NumericRun(lines), Space \ {" "})
       => /\ AllDigits(parsed)
          /\ Len(parsed) >= 1 /\ Len(parsed) <= 13
          /\ Len(NumericRun(lines)) >= 9

\* two groups of four digits after the label: a reference of 8 digits
C26_EightDigits ==
    /\ Done
    /\ lines = <<"Ref No. 7037", "7037">>
    /\ NumericYields(lines)
    /\ NumericRun(lines) = "7037 7037"
    /\ parsed = "70377037"

\* a label on one line and nine digits on the next: a reference of 9 digits
C26_Witness ==
    /\ Done
    /\ lines = <<"Ref No.", "123456789">>
    /\ NumericYields(lines)
    /\ parsed = "123456789"

(***************************************************************************)
(* C27: the timestamps of the parser before the templates of the matcher   *)
(***************************************************************************)
\* C27: every timestamp _extract_time returns is accepted by a template of
\* _parse_time: where _extract_time returns a string, _parse_time of it is not None.
C27_ExtractedTimestampParses == Done /\ parsed # None => _parse_time(parsed) # NoValue

\* a full month name, 12-hour time, a space before "pm": extracted and parsed
C27_Witness ==
    /\ Done
    /\ parsed = "February 5, 2026 7:23 pm"
    /\ _parse_time(parsed) # NoValue

\* the year and time OCR has merged are split by the parser, and no template accepts
\* "10:59PM" without a space before "PM"
C27_MergedTimeUnparseable ==
    /\ Done
    /\ lines = <<"Feb 12, 202610:59PM">>
    /\ parsed = "Feb 12, 2026 10:59PM"
    /\ _parse_time(parsed) = NoValue

\* a numeric date with a 24-hour time is extracted and no template accepts it
C27_NumericDateUnparseable ==
    /\ Done
    /\ parsed = "01/28/2026 19:58"
    /\ _parse_time(parsed) = NoValue

(***************************************************************************)
(* C28: the shape of the amount _extract_amount returns                    *)
(***************************************************************************)
\* lines of a receipt: a name ending in "p" before a comma, a currency word before
\* a comma and a point, comma-led decimals after a label, and well-formed amounts
ShapeLines ==
    {"Shop, Inc.", "Php,.", "Total Amount Sent ₱,.00", "Amount 1,000.06",
     "Paid 1,000.06 today", "Service Fee P10.00", "₱1,420.00", "cats"}

InitAmountShape == InitLines(ListsUpTo(ShapeLines, MaxReceiptLines))

SpecAmountShape == InitAmountShape /\ [][NextAmount]_vars

HasDigit(s) == \E i \in 1..Len(s) : Ch(s, i) \in Digits

Points(s) == {i \in 1..Len(s) : Ch(s, i) = "."}

\* nothing but digits and at most one decimal point: no separator, no currency symbol
DigitsAndPoint(s) ==
    /\ \A i \in 1..Len(s) : Ch(s, i) \in Digits \cup {"."}
    /\ Cardinality(Points(s)) <= 1

\* C28: every amount _extract_amount returns is a well-formed non-negative decimal
\* numeral: it has at least one digit, no thousands separator and no currency
\* symbol, and is never the empty string.
C28_AmountIsDecimalNumeral ==
    Done /\ parsed # None => parsed # "" /\ HasDigit(parsed) /\ DigitsAndPoint(parsed)

\* C28, the part that holds of every tier: the amount returned has no thousands
\* separator and no currency symbol, only digits and at most one decimal point.
C28_NoSeparatorNoSymbol == Done /\ parsed # None => DigitsAndPoint(parsed)

\* a comma after a letter "p" is taken for an amount, and the amount is empty
C28_EmptyAmount ==
    /\ Done
    /\ lines = <<"Shop, Inc.">>
    /\ parsed = ""

\* a comma and a point after the currency word give an amount without a digit
C28_PointOnly ==
    /\ Done
    /\ lines = <<"Php,.">>
    /\ parsed = "."

\* a separated amount comes back without its separator
C28_Witness ==
    /\ Done
    /\ lines = <<"Amount 1,000.06">>
    /\ parsed = "1000.06"

(***************************************************************************)
(* C29: what a "matched" verdict rests on                                  *)
(***************************************************************************)
\* the result points at an entry of the history
Chosen == {i \in 1..Len(history) : Fields(history[i]) = Snapshot(result)}

\* C29: a "matched" verdict always rests on an amount match: whenever the verdict
\* is "matched", whichever strategy produced it, the receipt's amount is a number,
\* the result carries an entry of the history, and that entry's amount is within
\* 0.01 of the receipt's; a receipt whose amount is not a number is never "matched".
C29_MatchedRestsOnAmount ==
    Done =>
      /\ result.verdict = "matched" =>
            /\ Amount(receipt.amount) # NoValue
            /\ Chosen # {}
            /\ WithinOrCent(receipt.amount, result.history_amount)
      /\ Amount(receipt.amount) = NoValue => result.verdict # "matched"

\* matched on the reference: the entry sharing the reference has the amount
C29_Witness ==
    /\ Done /\ Sharing # {}
    /\ result.verdict = "matched"
    /\ result.details = "Reference number and amount match."
    /\ Within(receipt.amount, result.history_amount)

\* matched on amount and time, no reference shared
C29_ByTimeWitness ==
    /\ Done /\ Sharing = {}
    /\ result.verdict = "matched"
    /\ TimeHits # {}
    /\ Within(receipt.amount, result.history_amount)

\* matched on the amount alone, the only entry of that amount
C29_ByAmountWitness ==
    /\ Done /\ Sharing = {} /\ receipt.time = None
    /\ result.verdict = "matched"
    /\ Chosen = AmountHits

\* a receipt without a parseable amount shares its reference with an entry and is
\* not matched
C29_NoAmountWitness ==
    /\ Done /\ Sharing # {}
    /\ Amount(receipt.amount) = NoValue
    /\ result.verdict = "mismatch"

====
